---- MODULE Spec2Model ----
(***************************************************************************)
(* A model of the NHL game-day-thread updater (nhl_gdt_updater.py and its  *)
(* web front end app.py).  One generation loads a template buffer, patches *)
(* the logos, looks for the next game and patches the header, then patches *)
(* the two team regions, and hands the buffer back to its caller.          *)
(*                                                                         *)
(* The buffer is a sequence of symbols, each a triple <<kind, a, b>> that  *)
(* stands for a run of characters of the template:                         *)
(*   <<"txt",id,"">>      text holding no '<', no '"' and no newline        *)
(*   <<"ws","","">>       a run of white space holding a newline            *)
(*   <<"val",f,t>>        the rendered value of datum f of team t (text)    *)
(*   <<"nbsp","","">>     the text &nbsp;                                   *)
(*   <<"el",f,t>>         one element <b>...</b> (the points of a record)   *)
(*   <<"hr","","">>       <hr style="width:N%">, the region separator       *)
(*   <<"p",label,"">>     <p data-gdt="***UPDATE label***">                 *)
(*   <<"/p","","">>       </p>                                              *)
(*   <<"pp","","">>       <p>                                               *)
(*   <<"br","","">>       <br>                                              *)
(*   <<"h4","","">>       <h4>...</h4>, a heading                           *)
(*   <<"h3sl","","">>     <h3><b>Starting Lineup:</b></h3>                  *)
(*   <<"h3sg","","">>     <h3><b>Starting Goaltender:</b></h3>              *)
(*   <<"src","","">>      data-src="       <<"href","","">>   href="        *)
(*   <<"q","","">>        the closing '"' of an attribute value             *)
(*   <<"url",part,id>>    a piece of an attribute value (part is "host",    *)
(*                        "png", "gc" or "path")                            *)
(*   <<"gh","","">>       REGULAR SEASON GAME #     <<"mdash","","">>       *)
(*   <<"num",v,"">>       digits    <<"date",v,"">>  digits/digits/digits   *)
(*   <<"timelbl","","">>  <b>Time</b>:    <<"time",v,"">>  h:mm AM          *)
(*   <<"tvlbl","","">>    <b>TV</b><span>:</span>&nbsp;                     *)
(*   <<"radiolbl","","">> <b>&nbsp;Radio</b>:                               *)
(*                                                                         *)
(* A substitution finds nothing in an empty buffer.  The operators that    *)
(* chain substitutions test for the empty buffer between two of them; the  *)
(* test also makes TLC compute each buffer before the next substitution    *)
(* starts, which keeps its evaluation shallow.                             *)
(***************************************************************************)
EXTENDS Integers, Sequences, FiniteSets, TLC

VARIABLES
    template,        \* the template text the generation was given
    opponent,        \* opponent_abbrev
    content,         \* template_content of update_template, the buffer
    prev,            \* the buffer as it stood before the last patch step
    pc,              \* where the generation stands
    steps,           \* the steps of the generation passed so far
    days_ahead,      \* the loop variable of find_next_game
    sched_fetches,   \* the schedule fetches find_next_game has issued
    game,            \* game_data: what find_next_game returned
    skipped,         \* whether the scan passed over a game of the two teams
    warnings,        \* the warnings and errors printed
    fetched,         \* the other fetches, in order: <<url, team, outcome>>
    outcome,         \* what the caller did: "none", "document" or "error"
    call,            \* a function called on its own: <<name, arguments>>
    locals,          \* the local variables of that call while its loop runs
    ret              \* what that call returned: <<>> before it returns, <<value>> after

vars == <<template, opponent, content, prev, pc, steps, days_ahead, sched_fetches,
          game, skipped, warnings, fetched, outcome, call, locals, ret>>

Sym(k, a, b) == <<k, a, b>>
Kind(s) == s[1]

WS == Sym("ws", "", "")
NBSP == Sym("nbsp", "", "")
HR == Sym("hr", "", "")
PClose == Sym("/p", "", "")
PP == Sym("pp", "", "")
BR == Sym("br", "", "")
Quote == Sym("q", "", "")

\* Whether the characters of s hold a '<'.
HasLt(s) == Kind(s) \in {"el", "hr", "p", "/p", "pp", "br", "h4", "h3sl", "h3sg",
                         "timelbl", "tvlbl", "radiolbl"}

\* Whether the characters of s hold a '"'.
HasQuote(s) == Kind(s) \in {"q", "src", "href", "hr", "p"}

Min(S) == CHOOSE x \in S : \A y \in S : x <= y

\* content[lo:hi] of the source, on 1-based positions: the symbols lo..hi.
Slice(buf, lo, hi) == SubSeq(buf, lo, hi)

\* buf with the symbols lo..hi replaced by repl.
Splice(buf, lo, hi, repl) ==
    SubSeq(buf, 1, lo - 1) \o repl \o SubSeq(buf, hi + 1, Len(buf))

\* The first position >= i whose symbol holds a '<' (Len(buf)+1 if none):
\* where a greedy [^<]* that starts at i stops.
RECURSIVE RunNoLt(_, _)
RunNoLt(buf, i) ==
    IF i > Len(buf) \/ HasLt(buf[i]) THEN i ELSE RunNoLt(buf, i + 1)

\* Where a greedy [^"]* that starts at i stops.
RECURSIVE RunNoQuote(_, _)
RunNoQuote(buf, i) ==
    IF i > Len(buf) \/ HasQuote(buf[i]) THEN i ELSE RunNoQuote(buf, i + 1)

\* Where a greedy \s* that starts at i stops.
RECURSIVE SkipWs(_, _)
SkipWs(buf, i) ==
    IF i > Len(buf) \/ buf[i] # WS THEN i ELSE SkipWs(buf, i + 1)

(***************************************************************************)
(* The process-wide tables.                                                *)
(***************************************************************************)
NYR == "NYR"

\* The teams of the model: the Rangers, an opponent with a logo, an opponent
\* without one (TEAM_LOGO_URLS has no entry for ARI) and a third club.
Teams == {"NYR", "BUF", "ARI", "BOS"}

\* TEAM_LOGO_URLS: the value of a team's logo attribute; the two URLs differ
\* in length.  The empty sequence stands for a missing entry.
TEAM_LOGO_URLS(t) ==
    CASE t = "NYR" -> <<Sym("url", "host", "inv"), Sym("url", "path", "NYR"),
                        Sym("url", "png", "")>>
      [] t = "BUF" -> <<Sym("url", "path", "//"), Sym("url", "host", "inv"),
                        Sym("url", "path", "BUF"), Sym("url", "png", ""),
                        Sym("url", "path", "hash")>>
      [] t = "BOS" -> <<Sym("url", "host", "inv"), Sym("url", "png", "")>>
      [] OTHER -> <<>>

(***************************************************************************)
(* update_team_logos                                                       *)
(***************************************************************************)
\* The end of a match of logo_pattern that starts at i, 0 if there is none:
\* data-src=" [^"]* host [^"]* .png [^"]* "
LogoMatchEnd(buf, i) ==
    IF Kind(buf[i]) # "src" THEN 0
    ELSE LET j == RunNoQuote(buf, i + 1)
         IN IF /\ j <= Len(buf)
               /\ buf[j] = Quote
               /\ \E h, g \in (i + 1)..(j - 1) :
                    /\ h < g
                    /\ Kind(buf[h]) = "url" /\ buf[h][2] = "host"
                    /\ Kind(buf[g]) = "url" /\ buf[g][2] = "png"
            THEN j ELSE 0

\* re.finditer: the non-overlapping matches from position i on, left to right,
\* each as <<start, end>>.
RECURSIVE LogoMatches(_, _)
LogoMatches(buf, i) ==
    LET starts == {j \in i..Len(buf) : LogoMatchEnd(buf, j) # 0}
    IN IF starts = {} THEN <<>>
       ELSE <<<<Min(starts), LogoMatchEnd(buf, Min(starts))>>>>
              \o LogoMatches(buf, LogoMatchEnd(buf, Min(starts)) + 1)

\* The replacement of the k-th match (k from 1): the 1st and 3rd get the first
\* team's URL, the 2nd and 4th the second team's, later ones none.
LogoReplacements(buf, matches, urlA, urlB) ==
    LET n == IF Len(matches) < 4 THEN Len(matches) ELSE 4
    IN [k \in 1..n |->
          LET m == matches[k]
          IN <<m[1], m[2],
               <<buf[m[1]]>> \o (IF k \in {1, 3} THEN urlA ELSE urlB)
                             \o <<buf[m[2]]>> >>]

\* for start, end, replacement in reversed(replacements): the k-th edit and
\* then the ones before it, each on the offsets found in the original buffer.
RECURSIVE ApplyReversed(_, _, _)
ApplyReversed(buf, reps, k) ==
    IF k = 0 THEN buf
    ELSE LET edited == Splice(buf, reps[k][1], reps[k][2], reps[k][3])
         IN IF edited = <<>> THEN edited ELSE ApplyReversed(edited, reps, k - 1)

\* The same edits taken front to back on the offsets of the original buffer.
RECURSIVE ApplyForward(_, _, _)
ApplyForward(buf, reps, k) ==
    IF k = 0 THEN buf
    ELSE LET before == ApplyForward(buf, reps, k - 1)
         IN Splice(before, reps[k][1], reps[k][2], reps[k][3])

ApplyLogoEditsForward(buf, reps) == ApplyForward(buf, reps, Len(reps))

ApplyLogoEdits(buf, reps) == ApplyReversed(buf, reps, Len(reps))

update_team_logos(buf, a, b) ==
    IF TEAM_LOGO_URLS(a) = <<>> \/ TEAM_LOGO_URLS(b) = <<>> THEN buf
    ELSE LET matches == LogoMatches(buf, 1)
         IN IF matches = <<>> THEN buf
            ELSE ApplyLogoEdits(buf, LogoReplacements(buf, matches, TEAM_LOGO_URLS(a),
                                                      TEAM_LOGO_URLS(b)))

\* What update_team_logos prints.
LogoWarnings(buf, a, b) ==
    IF TEAM_LOGO_URLS(a) = <<>> \/ TEAM_LOGO_URLS(b) = <<>> THEN {"no-logo-url"}
    ELSE IF Len(LogoMatches(buf, 1)) < 4 THEN {"fewer-than-4-logos"} ELSE {}

(***************************************************************************)
(* update_game_header                                                      *)
(***************************************************************************)
\* The least position of sec from lo on that satisfies the set S of matching
\* positions, 0 if there is none (re.sub with count=1 takes the leftmost match).
First(S) == IF S = {} THEN 0 ELSE Min(S)

\* (REGULAR SEASON GAME #)\d+(\s*&mdash;\s*)\d+/\d+/\d+ : the positions of the
\* number and of the date of the leftmost match, <<0, 0>> if there is none.
GameHeaderMatch(buf) ==
    LET Ok(i) == /\ Kind(buf[i]) = "gh"
                 /\ i + 1 <= Len(buf) /\ Kind(buf[i + 1]) = "num"
                 /\ LET m == SkipWs(buf, i + 2)
                    IN /\ m <= Len(buf) /\ Kind(buf[m]) = "mdash"
                       /\ LET d == SkipWs(buf, m + 1)
                          IN d <= Len(buf) /\ Kind(buf[d]) = "date"
        i0 == First({i \in 1..Len(buf) : Ok(i)})
    IN IF i0 = 0 THEN <<0, 0>>
       ELSE <<i0 + 1, SkipWs(buf, SkipWs(buf, i0 + 2) + 1)>>

SubGameHeader(buf, gi) ==
    LET m == GameHeaderMatch(buf)
    IN IF m[1] = 0 THEN buf
       ELSE [buf EXCEPT ![m[1]] = Sym("num", "game-number", ""),
                        ![m[2]] = Sym("date", gi.id, "")]

\* (<b>Time</b>:\s*)\d+:\d+\s*[AP]M
SubTime(buf, gi) ==
    LET Ok(i) == /\ Kind(buf[i]) = "timelbl"
                 /\ LET t == SkipWs(buf, i + 1)
                    IN t <= Len(buf) /\ Kind(buf[t]) = "time"
        i0 == First({i \in 1..Len(buf) : Ok(i)})
    IN IF i0 = 0 THEN buf
       ELSE [buf EXCEPT ![SkipWs(buf, i0 + 1)] = Sym("time", gi.id, "")]

\* (<b>TV</b><span>:</span>&nbsp;)[^<]+
SubTv(buf, gi) ==
    LET Ok(i) == Kind(buf[i]) = "tvlbl" /\ RunNoLt(buf, i + 1) > i + 1
        i0 == First({i \in 1..Len(buf) : Ok(i)})
    IN IF i0 = 0 THEN buf
       ELSE Splice(buf, i0 + 1, RunNoLt(buf, i0 + 1) - 1, <<Sym("val", "tv", gi.id)>>)

\* (<b>&nbsp;Radio</b>:\s*)[^<]+ : the white space after the label belongs to
\* the kept group, but for the last symbol of the run, which [^<]+ needs.
SubRadio(buf) ==
    LET Ok(i) == Kind(buf[i]) = "radiolbl" /\ RunNoLt(buf, i + 1) > i + 1
        i0 == First({i \in 1..Len(buf) : Ok(i)})
    IN IF i0 = 0 THEN buf
       ELSE LET r == RunNoLt(buf, i0 + 1)
                w == SkipWs(buf, i0 + 1)
                a == IF w < r THEN w ELSE r - 1
            IN Splice(buf, a, r - 1, <<Sym("val", "radio", NYR)>>)

\* (href=")[^"]*nhl\.com/gamecenter[^"]*(")
SubGameCenter(buf, gi) ==
    LET Ok(i) == /\ Kind(buf[i]) = "href"
                 /\ LET j == RunNoQuote(buf, i + 1)
                    IN /\ j <= Len(buf) /\ buf[j] = Quote
                       /\ \E g \in (i + 1)..(j - 1) :
                            Kind(buf[g]) = "url" /\ buf[g][2] = "gc"
        i0 == First({i \in 1..Len(buf) : Ok(i)})
    IN IF i0 = 0 THEN buf
       ELSE Splice(buf, i0 + 1, RunNoQuote(buf, i0 + 1) - 1,
                   <<Sym("url", "gc", gi.id)>>)

\* update_game_header(content, game_info, nyr_game_number); number says whether
\* nyr_game_number is truthy.
update_game_header(buf, gi, number) ==
    LET b1 == IF number THEN SubGameHeader(buf, gi) ELSE buf
        b2 == IF b1 = <<>> THEN b1 ELSE SubTime(b1, gi)
        b3 == IF gi.tv /\ b2 # <<>> THEN SubTv(b2, gi) ELSE b2
        b4 == IF b3 = <<>> THEN b3 ELSE SubRadio(b3)
    IN IF gi.link /\ b4 # <<>> THEN SubGameCenter(b4, gi) ELSE b4

(***************************************************************************)
(* update_team_section: the field substitutions                            *)
(***************************************************************************)
\* The substitutions on labelled placeholders, in the order of the source.
\* f is the datum rendered, labels the labels (of the form ***UPDATE x***) that
\* the pattern's [^"]*UPDATE...[^"]* accepts, nested whether the pattern allows
\* one element inside the content, group the fetched data the value comes from.
Field(f, labels, nested, group) ==
    [f |-> f, labels |-> labels, nested |-> nested, group |-> group]

Fields ==
    << Field("RECORD", {"RECORD"}, TRUE, "standings"),
       Field("POSITION", {"POSITION"}, FALSE, "standings"),
       Field("ROW", {"ROW"}, FALSE, "standings"),
       Field("P%", {"P%"}, FALSE, "standings"),
       Field("RECORD HOME", {"RECORD HOME"}, FALSE, "standings"),
       Field("RECORD AWAY", {"RECORD AWAY"}, FALSE, "standings"),
       Field("S/O", {"S/O"}, FALSE, "standings"),
       Field("LAST 10", {"LAST 10"}, FALSE, "standings"),
       Field("STREAK", {"STREAK"}, FALSE, "standings"),
       Field("DIFF", {"DIFF"}, FALSE, "stats"),
       Field("GF/GP", {"GF/GP"}, FALSE, "stats"),
       Field("GA/GP", {"GA/GP"}, FALSE, "stats"),
       Field("PP%", {"PP%"}, FALSE, "summary"),
       Field("PK%", {"PK%"}, FALSE, "summary"),
       Field("GOALS", {"GOALS"}, FALSE, "leaders"),
       Field("ASSISTS", {"ASSISTS"}, FALSE, "leaders"),
       Field("POINTS", {"POINTS"}, FALSE, "leaders"),
       Field("+/-", {"+/-"}, FALSE, "leaders"),
       Field("PIM", {"PIM"}, FALSE, "leaders"),
       Field("TOI/G (D)", {"TOI/G (D)"}, FALSE, "leaders"),
       Field("TOI/G (F)", {"TOI/G (F)"}, FALSE, "leaders"),
       Field("GS", {"GS"}, FALSE, "goalie"),
       Field("REC", {"RECORD", "RECORD HOME", "RECORD AWAY", "REC"}, FALSE, "goalie"),
       Field("SV%", {"SV%"}, FALSE, "goalie"),
       Field("GAA", {"GAA"}, FALSE, "goalie"),
       Field("SO", {"SO"}, FALSE, "goalie") >>

\* The end (the </p>) of a match of field F's pattern that starts at i, 0 if none:
\*   (<p\s+data-gdt="[^"]*UPDATE...[^"]*">)\s*[^<]*(</p>)
\* and for the record, (<p ...RECORD\*\*\*">)[^<]*(?:<[^>]*>[^<]*</[^>]*>)?[^<]*(</p>)
FieldMatchEnd(sec, i, F) ==
    IF ~(Kind(sec[i]) = "p" /\ sec[i][2] \in F.labels) THEN 0
    ELSE LET j == RunNoLt(sec, i + 1)
             e == IF F.nested /\ j <= Len(sec) /\ Kind(sec[j]) = "el"
                  THEN RunNoLt(sec, j + 1) ELSE j
         IN IF e <= Len(sec) /\ sec[e] = PClose THEN e ELSE 0

\* The leftmost position where F's pattern matches, 0 if the anchor is not found.
FieldAnchor(sec, F) == First({i \in 1..Len(sec) : FieldMatchEnd(sec, i, F) # 0})

\* The data fetched for one team: sum, lead and goal say whether the summary,
\* the club statistics for the leaders and the club statistics for the goalie
\* came back (goal also needs a non-empty goalie list); lines is the number of
\* unique players of the roster page, -1 when get_line_combinations gave None.
\* The text a field is given, between \1 and \2 of its replacement.
FieldValue(F, t, d) ==
    CASE F.f = "RECORD" ->
           <<WS, Sym("val", "RECORD", t), Sym("el", "POINTS", t), Sym("txt", ")", ""), WS>>
      [] F.group = "summary" ->
           <<WS, Sym("val", F.f, IF d.sum THEN t ELSE "0"), WS>>
      [] F.group = "leaders" ->
           <<WS, Sym("val", F.f, IF d.lead THEN t ELSE "N/A"), WS>>
      [] OTHER -> <<WS, Sym("val", F.f, t), WS>>

\* replace_in_section(section, pattern, replacement) for field F.
replace_in_section(sec, F, t, d) ==
    LET i == FieldAnchor(sec, F)
    IN IF i = 0 THEN sec
       ELSE Splice(sec, i + 1, FieldMatchEnd(sec, i, F) - 1, FieldValue(F, t, d))

\* Whether update_team_section reaches field F's substitution: the goalie
\* fields are skipped when get_goalie_stats gave None.
FieldApplies(F, d) == F.group # "goalie" \/ d.goal

\* The substitutions of the fields lo..hi applied in turn, in the order of the
\* source (the range is halved only to keep the evaluation shallow).
RECURSIVE SubFieldsRange(_, _, _, _, _)
SubFieldsRange(sec, lo, hi, t, d) ==
    IF lo = hi
    THEN IF FieldApplies(Fields[lo], d)
         THEN replace_in_section(sec, Fields[lo], t, d) ELSE sec
    ELSE LET mid == (lo + hi) \div 2
             half == SubFieldsRange(sec, lo, mid, t, d)
         IN IF half = <<>> THEN half ELSE SubFieldsRange(half, mid + 1, hi, t, d)

\* All the field substitutions of update_team_section on one section.
SubFields(sec, t, d) == SubFieldsRange(sec, 1, Len(Fields), t, d)

(***************************************************************************)
(* update_team_section: the line combinations                              *)
(***************************************************************************)
\* ceil(a / b)
CeilDiv(a, b) == (a + b - 1) \div b

Clamp(x, lo, hi) == IF x < lo THEN lo ELSE IF x > hi THEN hi ELSE x

\* get_line_combinations fills the forward lines with players 1..12, three to a
\* line, the pairs with players 13..18, two to a pair, the goalies with 19..20.
NumForwardLines(n) == CeilDiv(Clamp(n, 0, 12), 3)
NumDefensePairs(n) == CeilDiv(Clamp(n - 12, 0, 6), 2)
NumGoalies(n) == Clamp(n - 18, 0, 2)

\* "<br>\n\t\t".join(rows): row k of `count` rows, the last one short of players
\* when `full` does not divide their number.
RECURSIVE JoinRows(_, _, _, _, _)
JoinRows(name, k, count, lastFull, t) ==
    IF k > count THEN <<>>
    ELSE <<Sym(IF k = count /\ ~lastFull THEN "valp" ELSE "val", name, t)>>
         \o (IF k < count THEN <<BR, WS>> ELSE <<>>)
         \o JoinRows(name, k + 1, count, lastFull, t)

forwards_html(n, t) ==
    JoinRows("forwards", 1, NumForwardLines(n), Clamp(n, 0, 12) % 3 = 0, t)

defense_html(n, t) ==
    JoinRows("defense", 1, NumDefensePairs(n), Clamp(n - 12, 0, 6) % 2 = 0, t)

\* The terminator </p>\s*<p> of lineup_pattern at k.
LineupEnd(sec, k) ==
    /\ sec[k] = PClose
    /\ LET a == SkipWs(sec, k + 1) IN a <= Len(sec) /\ sec[a] = PP

\* (<b>Starting Lineup:\^?</b>\s*</h3>\s*<p>).*?(</p>\s*<p>) : the <p> of the
\* leftmost match and the </p> that ends its lazy span, <<0, 0>> if none.
LineupMatch(sec) ==
    LET Open(i) == SkipWs(sec, i + 1)
        Ends(i) == {k \in (Open(i) + 1)..Len(sec) : LineupEnd(sec, k)}
        Ok(i) == /\ Kind(sec[i]) = "h3sl"
                 /\ Open(i) <= Len(sec) /\ sec[Open(i)] = PP
                 /\ Ends(i) # {}
        i0 == First({i \in 1..Len(sec) : Ok(i)})
    IN IF i0 = 0 THEN <<0, 0>> ELSE <<Open(i0), Min(Ends(i0))>>

SubLineup(sec, n, t) ==
    LET m == LineupMatch(sec)
    IN IF m[1] = 0 THEN sec
       ELSE Splice(sec, m[1] + 1, m[2] - 1, <<WS>> \o forwards_html(n, t) \o <<WS>>)

\* The terminator </p>\s*(?:<h4>|<h3>\s*<b>Starting Goaltender) at k.
DefenseEnd(sec, k) ==
    /\ sec[k] = PClose
    /\ LET a == SkipWs(sec, k + 1)
       IN a <= Len(sec) /\ Kind(sec[a]) \in {"h4", "h3sg"}

\* defense_pattern1: (&nbsp;\s*</p>\s*<p>).*?(</p>\s*(?:<h4>|<h3>...))
DefenseMatch1(sec) ==
    LET Close(i) == SkipWs(sec, i + 1)
        Open(i) == SkipWs(sec, Close(i) + 1)
        Ends(i) == {k \in (Open(i) + 1)..Len(sec) : DefenseEnd(sec, k)}
        Ok(i) == /\ sec[i] = NBSP
                 /\ Close(i) <= Len(sec) /\ sec[Close(i)] = PClose
                 /\ Open(i) <= Len(sec) /\ sec[Open(i)] = PP
                 /\ Ends(i) # {}
        i0 == First({i \in 1..Len(sec) : Ok(i)})
    IN IF i0 = 0 THEN <<0, 0>> ELSE <<Open(i0), Min(Ends(i0))>>

\* defense_pattern2: (</p>\s*<p>\s*)<br>.*?(</p>\s*(?:<h4>|<h3>...)) : the <br>
\* of the leftmost match and the </p> that ends its span.
DefenseMatch2(sec) ==
    LET Open(i) == SkipWs(sec, i + 1)
        Br(i) == SkipWs(sec, Open(i) + 1)
        Ends(i) == {k \in (Br(i) + 1)..Len(sec) : DefenseEnd(sec, k)}
        Ok(i) == /\ sec[i] = PClose
                 /\ Open(i) <= Len(sec) /\ sec[Open(i)] = PP
                 /\ Br(i) <= Len(sec) /\ sec[Br(i)] = BR
                 /\ Ends(i) # {}
        i0 == First({i \in 1..Len(sec) : Ok(i)})
    IN IF i0 = 0 THEN <<0, 0>> ELSE <<Br(i0), Min(Ends(i0))>>

\* The defense pairs: pattern 1, and pattern 2 when pattern 1 left the section
\* as it was.
SubDefense(sec, n, t) ==
    LET repl == <<WS>> \o defense_html(n, t) \o <<WS>>
        m1 == DefenseMatch1(sec)
        new_section == IF m1[1] = 0 THEN sec
                       ELSE Splice(sec, m1[1] + 1, m1[2] - 1, repl)
        m2 == DefenseMatch2(sec)
    IN IF new_section # sec THEN new_section
       ELSE IF m2[1] = 0 THEN sec
       ELSE Splice(sec, m2[1], m2[2] - 1, repl)

\* (<b>Starting Goaltender:</b>\s*</h3>\s*<p>)\s*[^<\n]+(<br>|&nbsp;) : the <p>
\* of the leftmost match and the <br> or &nbsp; that ends it.  The run [^<\n]+
\* is greedy, so it ends at a <br> that follows it, or else gives back symbols
\* down to its last &nbsp;.
RECURSIVE RunNoLtNl(_, _)
RunNoLtNl(sec, i) ==
    IF i > Len(sec) \/ HasLt(sec[i]) \/ sec[i] = WS THEN i ELSE RunNoLtNl(sec, i + 1)

GoalieNameMatch(sec) ==
    LET Open(i) == SkipWs(sec, i + 1)
        From(i) == SkipWs(sec, Open(i) + 1)
        Stop(i) == RunNoLtNl(sec, From(i))
        Ends(i) == {e \in (From(i) + 1)..Stop(i) :
                      /\ e <= Len(sec)
                      /\ \/ e = Stop(i) /\ sec[e] = BR
                         \/ e < Stop(i) /\ sec[e] = NBSP}
        Ok(i) == /\ Kind(sec[i]) = "h3sg"
                 /\ Open(i) <= Len(sec) /\ sec[Open(i)] = PP
                 /\ Ends(i) # {}
        Max(S) == CHOOSE x \in S : \A y \in S : y <= x
        i0 == First({i \in 1..Len(sec) : Ok(i)})
    IN IF i0 = 0 THEN <<0, 0>> ELSE <<Open(i0), Max(Ends(i0))>>

SubGoalieName(sec, t) ==
    LET m == GoalieNameMatch(sec)
    IN IF m[1] = 0 THEN sec
       ELSE Splice(sec, m[1] + 1, m[2] - 1, <<WS, Sym("val", "goalie-name", t)>>)

\* The "if lines:" block of update_team_section; n is the number of unique
\* players get_line_combinations found, -1 when it gave None.
SubLines(sec, n, t) ==
    IF n < 0 \/ sec = <<>> THEN sec
    ELSE LET s1 == IF NumForwardLines(n) > 0 THEN SubLineup(sec, n, t) ELSE sec
             s2 == IF NumDefensePairs(n) > 0 /\ s1 # <<>> THEN SubDefense(s1, n, t) ELSE s1
         IN IF NumGoalies(n) > 0 /\ s2 # <<>> THEN SubGoalieName(s2, t) ELSE s2

(***************************************************************************)
(* update_team_section: the region and the patch                           *)
(***************************************************************************)
\* re.finditer(hr_pattern, content): the starts of the separators, in order.
hr_matches(buf) ==
    LET S == {i \in 1..Len(buf) : buf[i] = HR}
        RECURSIVE Sorted(_)
        Sorted(T) == IF T = {} THEN <<>> ELSE <<Min(T)>> \o Sorted(T \ {Min(T)})
    IN Sorted(S)

\* The split left out: the whole buffer is the section of either team.
SectionBoundsWhole(buf, is_first_team) == <<1, Len(buf)>>

\* The third separator left out: the second team's section runs to the end.
SectionBoundsToEnd(buf, is_first_team) ==
    LET hr == hr_matches(buf)
    IN IF Len(hr) >= 2
       THEN IF is_first_team THEN <<1, hr[2] - 1>> ELSE <<hr[2], Len(buf)>>
       ELSE <<1, Len(buf)>>

\* A buffer with one separator split at it: the first team before it, the
\* second from it on.
SectionBoundsSplit(buf, is_first_team) ==
    LET hr == hr_matches(buf)
    IN IF Len(hr) >= 2
       THEN IF is_first_team THEN <<1, hr[2] - 1>>
            ELSE <<hr[2], IF Len(hr) > 2 THEN hr[3] - 1 ELSE Len(buf)>>
       ELSE IF Len(hr) = 1
       THEN IF is_first_team THEN <<1, hr[1] - 1>> ELSE <<hr[1], Len(buf)>>
       ELSE <<1, Len(buf)>>

\* content[section_start:section_end] as the positions <<first, last>>.
SectionBounds(buf, is_first_team) ==
    LET hr == hr_matches(buf)
    IN IF Len(hr) >= 2
       THEN IF is_first_team THEN <<1, hr[2] - 1>>
            ELSE <<hr[2], IF Len(hr) > 2 THEN hr[3] - 1 ELSE Len(buf)>>
       ELSE <<1, Len(buf)>>

\* update_team_section once the standings are there: the section is cut out,
\* patched and put back.
PatchSection(buf, t, is_first_team, d) ==
    LET b == SectionBounds(buf, is_first_team)
        section == Slice(buf, b[1], b[2])
        fields == IF section = <<>> THEN section ELSE SubFields(section, t, d)
        patched == IF fields = <<>> THEN fields ELSE SubLines(fields, d.lines, t)
    IN Splice(buf, b[1], b[2], patched)

(***************************************************************************)
(* find_next_game                                                          *)
(***************************************************************************)
\* range(60)
Horizon == 60

\* The most games one schedule response holds in the model.
MaxGames == 2

NoGame == [id |-> "none", away |-> "", home |-> "", start |-> FALSE,
           tv |-> FALSE, link |-> FALSE]

\* The games a schedule response may list when the opponent is o: the two
\* teams either way round (one with a start time, US broadcasts and a game
\* centre link, one with none of them), and two games with a third club.
GamePool(o) ==
    { [id |-> "g1", away |-> NYR, home |-> o, start |-> TRUE, tv |-> TRUE, link |-> TRUE],
      [id |-> "g2", away |-> o, home |-> NYR, start |-> FALSE, tv |-> FALSE, link |-> FALSE],
      [id |-> "g3", away |-> "BOS", home |-> NYR, start |-> TRUE, tv |-> TRUE, link |-> TRUE],
      [id |-> "g4", away |-> o, home |-> "BOS", start |-> TRUE, tv |-> FALSE, link |-> TRUE] }

\* The games of data['gameWeek'], day by day, in scan order.
Responses(o) == UNION {[1..n -> GamePool(o)] : n \in 0..MaxGames}

\* The test with "or" for "and".
InvolvesEither(g, a, b) == a \in {g.away, g.home} \/ b \in {g.away, g.home}

\* if team1_abbrev in teams_in_game and team2_abbrev in teams_in_game
InvolvesBoth(g, a, b) == a \in {g.away, g.home} /\ b \in {g.away, g.home}

\* The index of the game the scan of one response returns, 0 if it returns none.
ScanResponse(r, a, b) == First({k \in 1..Len(r) : InvolvesBoth(r[k], a, b)})

(***************************************************************************)
(* The templates and the fetched data of the model                         *)
(***************************************************************************)
Txt(id) == Sym("txt", id, "")
Placeholder(label) == <<Sym("p", label, ""), Txt("old"), PClose>>
RecordPlaceholder ==
    <<Sym("p", "RECORD", ""), Txt("old"), Sym("el", "POINTS", "old"), Txt(")"), PClose>>

\* A logo attribute of the template, on either of the two hosts.
OldLogo(id) ==
    IF id = "a" THEN <<Sym("src", "", ""), Sym("url", "host", "bsb"), Sym("url", "png", ""), Quote>>
    ELSE <<Sym("src", "", ""), Sym("url", "path", id), Sym("url", "host", "inv"),
           Sym("url", "path", "old"), Sym("url", "path", "old"), Sym("url", "png", ""), Quote>>

\* A data-src attribute that is no logo: no logo host in it.
OtherImage == <<Sym("src", "", ""), Sym("url", "path", "cdn"), Sym("url", "png", ""), Quote>>

HeaderBlock ==
    <<Sym("gh", "", ""), Sym("num", "old", ""), WS, Sym("mdash", "", ""), Sym("date", "old", ""),
      Sym("timelbl", "", ""), WS, Sym("time", "old", ""),
      Sym("tvlbl", "", ""), Txt("old-tv"), BR,
      Sym("radiolbl", "", ""), WS, Txt("old-radio"), BR,
      Sym("href", "", ""), Sym("url", "gc", "old"), Quote>>

\* The first team's layout: a spacer paragraph before the defense pairs.
LineupBlockA ==
    <<Sym("h3sl", "", ""), PP, Txt("old-forwards"), PClose, PP, NBSP, PClose,
      PP, Txt("old-defense"), PClose, Sym("h3sg", "", ""), PP, Txt("old-goalie"), BR,
      Txt("tail"), PClose>>

\* The injuries of a team under their heading; no substitution of
\* update_team_section names them.
InjuriesBlock == <<Sym("h4", "", ""), PP, Txt("old-injuries"), PClose>>

\* The second team's layout: the defense paragraph starts with a <br>.
LineupBlockB ==
    <<Sym("h3sl", "", ""), PP, Txt("old-forwards"), PClose, PP, BR, Txt("old-defense"),
      PClose, Sym("h3sg", "", ""), PP, WS, Txt("old-goalie"), NBSP, PClose>>

FullFields ==
    RecordPlaceholder \o Placeholder("RECORD HOME") \o Placeholder("PP%")
      \o Placeholder("GOALS") \o Placeholder("GS") \o Placeholder("REC")

FewFields == Placeholder("POSITION") \o Placeholder("GOALS") \o Placeholder("SV%")

\* Four logos, a header, three separators, the same labels in both regions and,
\* after the third separator, a placeholder whose label neither region has.
TemplateFull ==
    OldLogo("a") \o <<Txt("vs")>> \o OldLogo("b") \o HeaderBlock
      \o <<HR>> \o OldLogo("c") \o FullFields \o LineupBlockA \o InjuriesBlock
      \o <<HR>> \o OldLogo("a") \o FullFields \o LineupBlockB \o InjuriesBlock
      \o <<HR>> \o Placeholder("POSITION") \o <<Txt("footer")>>

\* Five logos and another image, two separators, and a labelled placeholder
\* before the first separator.
TemplatePre ==
    <<Txt("top")>> \o Placeholder("POSITION") \o OldLogo("a") \o OtherImage
      \o <<HR>> \o OldLogo("b") \o FewFields \o OldLogo("c")
      \o <<HR>> \o OldLogo("a") \o FewFields \o OldLogo("b") \o <<Txt("end")>>

\* Two logos and one separator only.
TemplateOne ==
    OldLogo("a") \o FewFields \o <<HR>> \o OldLogo("b") \o FewFields \o LineupBlockB

\* The templates a generation may be given, the empty file among them.
Templates == {TemplateFull, TemplatePre, TemplateOne, <<>>}

\* The requests of the model, each a template and an opponent (the callers
\* refuse NYR): every template against BUF, and the full one against ARI,
\* which has no logo.
Requests == (Templates \X {"BUF"}) \cup {<<TemplateFull, "ARI">>}

\* The numbers of unique players a fetched roster page may hold.
LineCounts == {7, 20}

\* What the fetches of one update_team_section brought, the standings apart.
TeamData == [sum : BOOLEAN, lead : BOOLEAN, goal : BOOLEAN, lines : LineCounts \cup {-1}]

Flag(ok) == IF ok THEN "ok" ELSE "none"

\* update_team_section asking for the leaders' statistics a second time when
\* the first request gave nothing.
TeamFetchesRetrying(t, d) ==
    << <<"standings", "", "ok">>,
       <<"summary", "", Flag(d.sum)>>,
       <<"club-stats", t, Flag(d.lead)>> >>
    \o (IF d.lead THEN <<>> ELSE << <<"club-stats", t, "none">> >>)
    \o << <<"club-stats", t, Flag(d.goal)>>,
          <<"line-combinations", t, Flag(d.lines >= 0)>> >>

\* The fetches of update_team_section(t) in order, once the standings held t.
TeamFetches(t, d) ==
    << <<"standings", "", "ok">>,
       <<"summary", "", Flag(d.sum)>>,
       <<"club-stats", t, Flag(d.lead)>>,
       <<"club-stats", t, Flag(d.goal)>>,
       <<"line-combinations", t, Flag(d.lines >= 0)>> >>

(***************************************************************************)
(* The generation: update_template and its caller                          *)
(***************************************************************************)
Init ==
    /\ \E r \in Requests : template = r[1] /\ opponent = r[2]
    /\ content = template
    /\ prev = template
    /\ pc = "logos"
    /\ steps = <<"Loaded">>
    /\ days_ahead = 0
    /\ sched_fetches = 0
    /\ game = NoGame
    /\ skipped = FALSE
    /\ warnings = {}
    /\ fetched = <<>>
    /\ outcome = "none"
    /\ call = <<>>
    /\ locals = <<>>
    /\ ret = <<>>

\* template_content = update_team_logos(template_content, nyr_abbrev, opponent_abbrev)
PatchLogos ==
    /\ pc = "logos"
    /\ content' = update_team_logos(content, NYR, opponent)
    /\ prev' = content
    /\ warnings' = warnings \cup {<<w, "">> : w \in LogoWarnings(content, NYR, opponent)}
    /\ steps' = Append(steps, "LogosPatched")
    /\ pc' = "search"
    /\ UNCHANGED <<call, locals, ret, template, opponent, days_ahead, sched_fetches, game, skipped,
                   fetched, outcome>>

\* One turn of the loop of find_next_game whose fetch gives no usable data:
\* fetch_json returned None, or the payload has no gameWeek.
FindDayFailed ==
    /\ pc = "search"
    /\ days_ahead < Horizon
    /\ days_ahead' = days_ahead + 1
    /\ sched_fetches' = sched_fetches + 1
    /\ UNCHANGED <<call, locals, ret, template, opponent, content, prev, pc, steps, game, skipped,
                   warnings, fetched, outcome>>

\* One turn of the loop whose fetch gives the games r: the scan returns the
\* first game of the two teams, or the loop goes on to the next day.
FindDay ==
    /\ pc = "search"
    /\ days_ahead < Horizon
    /\ \E r \in Responses(opponent) :
         LET k == ScanResponse(r, NYR, opponent)
             upto == IF k = 0 THEN Len(r) ELSE k - 1
         IN /\ sched_fetches' = sched_fetches + 1
            /\ skipped' = (skipped \/ \E j \in 1..upto :
                                        {r[j].away, r[j].home} = {NYR, opponent})
            /\ IF k = 0
               THEN /\ days_ahead' = days_ahead + 1
                    /\ UNCHANGED <<game, pc>>
               ELSE /\ game' = r[k]
                    /\ pc' = "found"
                    /\ UNCHANGED days_ahead
    /\ UNCHANGED <<call, locals, ret, template, opponent, content, prev, steps, warnings, fetched, outcome>>

\* The loop ran out: find_next_game returns None.
FindNone ==
    /\ pc = "search"
    /\ days_ahead >= Horizon
    /\ pc' = "notfound"
    /\ UNCHANGED <<call, locals, ret, template, opponent, content, prev, steps, days_ahead, sched_fetches,
                   game, skipped, warnings, fetched, outcome>>

\* An exception of a fetch that fetch_json does not catch (a payload that is
\* no JSON, a timeout while reading) leaves update_template; the caller
\* reports an error (app.py) or dies of it (main), and writes no document.
Raised(log) ==
    /\ pc' = "raised"
    /\ outcome' = "error"
    /\ fetched' = fetched \o log
    /\ days_ahead' = 0
    /\ sched_fetches' = 0
    /\ UNCHANGED <<call, locals, ret, template, opponent, content, prev, steps, game, skipped, warnings>>

FindRaise ==
    /\ pc = "search"
    /\ days_ahead < Horizon
    /\ Raised(<< <<"schedule", "", "raise">> >>)

\* The else branch calling update_game_header with no game at hand.
NoGameWarningPatchesHeader ==
    /\ pc = "notfound"
    /\ content' = update_game_header(content, NoGame, FALSE)
    /\ warnings' = warnings \cup {<<"no-game", "">>}
    /\ prev' = content
    /\ steps' = Append(steps, "HeaderPatched")
    /\ pc' = "teamA"
    /\ days_ahead' = 0
    /\ sched_fetches' = 0
    /\ UNCHANGED <<call, locals, ret, template, opponent, game, skipped, fetched, outcome>>

\* else: print("Warning: Could not find upcoming game ...")
NoGameWarning ==
    /\ pc = "notfound"
    /\ warnings' = warnings \cup {<<"no-game", "">>}
    /\ prev' = content
    /\ steps' = Append(steps, "HeaderPatched")
    /\ pc' = "teamA"
    /\ days_ahead' = 0
    /\ sched_fetches' = 0
    /\ UNCHANGED <<call, locals, ret, template, opponent, content, game, skipped, fetched, outcome>>

\* get_game_info, get_team_game_number and update_game_header.  The game
\* number is fetched only when the game has a start time; number says whether
\* the fetch gave a number that is not 0.
PatchHeader ==
    /\ pc = "found"
    /\ \E number \in BOOLEAN :
         /\ (~game.start => ~number)
         /\ content' = update_game_header(content, game, number)
         /\ fetched' = fetched \o (IF game.start
                                   THEN << <<"club-schedule-season", NYR, Flag(number)>> >>
                                   ELSE <<>>)
    /\ prev' = content
    /\ steps' = Append(steps, "HeaderPatched")
    /\ pc' = "teamA"
    /\ days_ahead' = 0
    /\ sched_fetches' = 0
    /\ UNCHANGED <<call, locals, ret, template, opponent, game, skipped, warnings, outcome>>

HeaderRaise ==
    /\ pc = "found"
    /\ game.start
    /\ Raised(<< <<"club-schedule-season", NYR, "raise">> >>)

TeamOf(p) == IF p = "teamA" THEN NYR ELSE opponent

\* update_template returning after the first team.
AfterTeamReturns(p) == "return"

\* What follows update_team_section in update_template.
AfterTeam(p) == IF p = "teamA" THEN "teamB" ELSE "return"
StepOfTeam(p) == IF p = "teamA" THEN "TeamAPatched" ELSE "TeamBPatched"

\* update_team_section when get_team_stats gives no standings for the team (the
\* fetch failed, or the team is not in the payload): an error is printed and
\* the buffer is returned as it is.
TeamNoStandings ==
    /\ pc \in {"teamA", "teamB"}
    /\ \E st \in {"ok", "none"} :
         fetched' = Append(fetched, <<"standings", "", st>>)
    /\ warnings' = warnings \cup {<<"standings-error", TeamOf(pc)>>}
    /\ prev' = content
    /\ steps' = Append(steps, StepOfTeam(pc))
    /\ pc' = AfterTeam(pc)
    /\ UNCHANGED <<call, locals, ret, template, opponent, content, days_ahead, sched_fetches, game,
                   skipped, outcome>>

\* update_team_section with the team's standings: every later fetch either
\* gives its data or None, and the section is patched with what there is.
TeamSection ==
    /\ pc \in {"teamA", "teamB"}
    /\ \E d \in TeamData :
         /\ content' = PatchSection(content, TeamOf(pc), pc = "teamA", d)
         /\ fetched' = fetched \o TeamFetches(TeamOf(pc), d)
    /\ prev' = content
    /\ steps' = Append(steps, StepOfTeam(pc))
    /\ pc' = AfterTeam(pc)
    /\ UNCHANGED <<call, locals, ret, template, opponent, days_ahead, sched_fetches, game, skipped,
                   warnings, outcome>>

\* The k-th fetch of update_team_section raises, the ones before it having
\* given their data.
TeamRaise ==
    /\ pc \in {"teamA", "teamB"}
    /\ \E k \in 1..5 :
         LET log == TeamFetches(TeamOf(pc), [sum |-> TRUE, lead |-> TRUE,
                                             goal |-> TRUE, lines |-> 20])
         IN Raised(SubSeq(log, 1, k - 1) \o << <<log[k][1], log[k][2], "raise">> >>)

\* return template_content, and the caller: "if not updated" is an error, and
\* anything else is written to the file (main) or sent back (generate).
Return ==
    /\ pc = "return"
    /\ steps' = Append(steps, "Done")
    /\ outcome' = IF content = <<>> THEN "error" ELSE "document"
    /\ pc' = "done"
    /\ UNCHANGED <<call, locals, ret, template, opponent, content, prev, days_ahead, sched_fetches,
                   game, skipped, warnings, fetched>>

Next ==
    \/ PatchLogos
    \/ FindDayFailed
    \/ FindDay
    \/ FindNone
    \/ FindRaise
    \/ NoGameWarning
    \/ PatchHeader
    \/ HeaderRaise
    \/ TeamNoStandings
    \/ TeamSection
    \/ TeamRaise
    \/ Return

Spec == Init /\ [][Next]_vars

(***************************************************************************)
(* The functions checked on their own.  A call holds the name of the       *)
(* function and its arguments; the generation stands still meanwhile.      *)
(***************************************************************************)
NoGeneration ==
    /\ template = <<>>
    /\ opponent = NYR
    /\ content = <<>>
    /\ prev = <<>>
    /\ pc = "call"
    /\ steps = <<>>
    /\ days_ahead = 0
    /\ sched_fetches = 0
    /\ game = NoGame
    /\ skipped = FALSE
    /\ warnings = {}
    /\ fetched = <<>>
    /\ outcome = "none"

\* The function name returns value to its caller.
Returns(name, value) ==
    /\ pc = "call"
    /\ call # <<>>
    /\ call[1] = name
    /\ ret = <<>>
    /\ ret' = <<value>>
    /\ UNCHANGED <<call, locals, template, opponent, content, prev, pc, steps, days_ahead,
                   sched_fetches, game, skipped, warnings, fetched, outcome>>

(***************************************************************************)
(* get_team_stats: the ranks                                               *)
(***************************************************************************)
\* The most entries a league holds.
MaxLeague == 3

\* A quotient as <<numerator, denominator>>, the denominator positive.
Gt(a, b) == a[1] * b[2] > b[1] * a[2]

\* t.get(key, 0) / t.get('gamesPlayed', 1) if t.get('gamesPlayed', 0) > 0 else 0
PerGame(goals, gp) == IF gp > 0 THEN <<goals, gp>> ELSE <<0, 1>>

\* The value of the entry t on the metric m.
Metric(m, t) ==
    CASE m = "diff" -> <<t.goalDifferential, 1>>
      [] m = "gf" -> PerGame(t.goalFor, t.gamesPlayed)
      [] m = "ga" -> PerGame(t.goalAgainst, t.gamesPlayed)
      [] m = "pp" -> <<t.powerPlayPct, 1>>
      [] m = "pk" -> <<t.penaltyKillPct, 1>>

\* The comparison counting the entry as well when it equals the target.
BetterOrEqual(m, v, x) == IF m = "ga" THEN ~Gt(v, x) ELSE ~Gt(x, v)

\* if t_diff > diff, if t_gf > gf_per_game, if t_ga < ga_per_game,
\* if t_pp > pp_pct, if t_pk > pk_pct
Better(m, v, x) == IF m = "ga" THEN Gt(x, v) ELSE Gt(v, x)

\* rank = 1; for t in all: if <t better than x>: rank += 1
RECURSIVE RankLoop(_, _, _, _, _)
RankLoop(m, all, x, k, rank) ==
    IF k > Len(all) THEN rank
    ELSE RankLoop(m, all, x, k + 1,
                  IF Better(m, Metric(m, all[k]), x) THEN rank + 1 ELSE rank)

\* for team in all_teams: if team.get('teamAbbrev', {}).get('default') == team_abbrev
FindTeam(all_teams, team_abbrev) ==
    LET at == {k \in DOMAIN all_teams : all_teams[k].teamAbbrev = team_abbrev}
    IN IF at = {} THEN 0 ELSE Min(at)

\* for stat in all_stats: if stat.get('teamFullName') == target_name: ...; break
FindStat(all_stats, target_name) ==
    LET at == {k \in DOMAIN all_stats : all_stats[k].teamFullName = target_name}
    IN IF at = {} THEN 0 ELSE Min(at)

\* get_team_stats with the standings all_teams and the summary all_stats at
\* hand (all_stats is empty when the summary could not be fetched).
get_team_stats(all_teams, all_stats, team_abbrev) ==
    LET k == FindTeam(all_teams, team_abbrev)
        s == FindStat(all_stats, team_abbrev)
        pp_pct == IF s = 0 THEN <<0, 1>> ELSE Metric("pp", all_stats[s])
        pk_pct == IF s = 0 THEN <<0, 1>> ELSE Metric("pk", all_stats[s])
    IN IF k = 0 THEN [found |-> FALSE]
       ELSE [found |-> TRUE,
             diff_rank |-> RankLoop("diff", all_teams, Metric("diff", all_teams[k]), 1, 1),
             gf_rank |-> RankLoop("gf", all_teams, Metric("gf", all_teams[k]), 1, 1),
             ga_rank |-> RankLoop("ga", all_teams, Metric("ga", all_teams[k]), 1, 1),
             pp_rank |-> RankLoop("pp", all_stats, pp_pct, 1, 1),
             pk_rank |-> RankLoop("pk", all_stats, pk_pct, 1, 1)]

\* The figures of one team: played, for, against, differential, power play
\* and penalty kill (in percent).
Figures(gp, gf, ga, diff, pp, pk) ==
    [gamesPlayed |-> gp, goalFor |-> gf, goalAgainst |-> ga,
     goalDifferential |-> diff, powerPlayPct |-> pp, penaltyKillPct |-> pk]

FiguresPool ==
    { Figures(0, 0, 0, 0, 0, 0),
      Figures(2, 4, 2, 2, 20, 80),
      Figures(4, 8, 6, 2, 20, 90),
      Figures(2, 6, 2, 4, 25, 80),
      Figures(2, 2, 4, -2, 10, 75) }

Leagues == UNION {[1..n -> FiguresPool] : n \in 1..MaxLeague}

\* The standings payload of a league: the k-th entry is the team k.
StandingsOf(l) ==
    [k \in DOMAIN l |-> [teamAbbrev |-> k, gamesPlayed |-> l[k].gamesPlayed,
                         goalFor |-> l[k].goalFor, goalAgainst |-> l[k].goalAgainst,
                         goalDifferential |-> l[k].goalDifferential]]

\* The summary payload of a league: nothing (the fetch failed), every team,
\* or every team but the team i.
SummaryOf(l, which, i) ==
    LET all == [k \in DOMAIN l |-> [teamFullName |-> k,
                                    powerPlayPct |-> l[k].powerPlayPct,
                                    penaltyKillPct |-> l[k].penaltyKillPct]]
        NotTarget(e) == e.teamFullName # i
    IN CASE which = "none" -> <<>>
         [] which = "all" -> all
         [] which = "others" -> SelectSeq(all, NotTarget)

InitRanks ==
    /\ NoGeneration
    /\ locals = <<>>
    /\ ret = <<>>
    /\ \E l \in Leagues, i \in 0..MaxLeague, which \in {"none", "all", "others"} :
         /\ i <= Len(l)
         /\ call = <<"get_team_stats", StandingsOf(l), SummaryOf(l, which, i), i>>

GetTeamStats == Returns("get_team_stats", get_team_stats(call[2], call[3], call[4]))

NextRanks == GetTeamStats

SpecRanks == InitRanks /\ [][NextRanks]_vars

(***************************************************************************)
(* get_team_leaders                                                        *)
(***************************************************************************)
\* The most skaters a club-stats payload holds.
MaxSkaters == 3

Categories == {"goals", "assists", "points", "plusMinus", "pim", "toi_d", "toi_f"}

\* player.get(api_key, 0), player.get('avgTimeOnIcePerGame', 0)
ValueOf(cat, player) ==
    CASE cat = "goals" -> player.goals
      [] cat = "assists" -> player.assists
      [] cat = "points" -> player.points
      [] cat = "plusMinus" -> player.plusMinus
      [] cat = "pim" -> player.penaltyMinutes
      [] cat \in {"toi_d", "toi_f"} -> player.avgTimeOnIcePerGame

\* if pos == 'D': ... else: ...; the five other loops take every skater.
InGroup(cat, player) ==
    CASE cat = "toi_d" -> player.positionCode = "D"
      [] cat = "toi_f" -> player.positionCode # "D"
      [] OTHER -> TRUE

\* best_val = -9999 if stat_key != 'pim' else 0; best_d_toi = 0; best_f_toi = 0
StartOf(cat) == IF cat \in {"goals", "assists", "points", "plusMinus"} THEN -9999 ELSE 0

\* The comparison letting a later player of the same value take the lead.
ReachesBest(val, best_val) == val >= best_val

\* if val > best_val, if toi > best_d_toi, if toi > best_f_toi
ExceedsBest(val, best_val) == val > best_val

\* for player in skaters: if val > best_val: best_val = val; best = player
\* (best is the place of the player in skaters, 0 for None).
RECURSIVE LeaderLoop(_, _, _, _, _)
LeaderLoop(cat, skaters, k, best, best_val) ==
    IF k > Len(skaters) THEN <<best, best_val>>
    ELSE IF InGroup(cat, skaters[k]) /\ ExceedsBest(ValueOf(cat, skaters[k]), best_val)
         THEN LeaderLoop(cat, skaters, k + 1, k, ValueOf(cat, skaters[k]))
         ELSE LeaderLoop(cat, skaters, k + 1, best, best_val)

\* get_team_leaders with the skaters of the payload at hand: for every category
\* the name of the leader ("N/A" when there is none) and the value, not yet
\* formatted.
get_team_leaders(skaters) ==
    [cat \in Categories |->
        LET found == LeaderLoop(cat, skaters, 1, 0, StartOf(cat))
        IN IF found[1] = 0 THEN [name |-> "N/A", value |-> 0]
           ELSE [name |-> skaters[found[1]].name, value |-> found[2]]]

\* The figures of one skater.
Skater(g, a, p, pm, pim, pos, toi) ==
    [goals |-> g, assists |-> a, points |-> p, plusMinus |-> pm,
     penaltyMinutes |-> pim, positionCode |-> pos, avgTimeOnIcePerGame |-> toi]

SkaterPool ==
    { Skater(0, 0, 0, 0, 0, "D", 0),
      Skater(2, 1, 3, -1, 4, "C", 900),
      Skater(2, 3, 5, 2, 0, "D", 1200),
      Skater(1, 3, 4, 2, 4, "L", 900),
      Skater(0, 1, 1, -3, 2, "D", 1200) }

\* The names of the skaters, by their place in the payload.
PlayerName(k) == "player " \o ToString(k)

\* The skaters of a payload: the k-th is named after its place.
SkatersOf(l) ==
    [k \in DOMAIN l |-> [name |-> PlayerName(k), goals |-> l[k].goals,
                         assists |-> l[k].assists, points |-> l[k].points,
                         plusMinus |-> l[k].plusMinus,
                         penaltyMinutes |-> l[k].penaltyMinutes,
                         positionCode |-> l[k].positionCode,
                         avgTimeOnIcePerGame |-> l[k].avgTimeOnIcePerGame]]

InitLeaders ==
    /\ NoGeneration
    /\ locals = <<>>
    /\ ret = <<>>
    /\ \E l \in UNION {[1..n -> SkaterPool] : n \in 0..MaxSkaters} :
         call = <<"get_team_leaders", SkatersOf(l)>>

GetTeamLeaders == Returns("get_team_leaders", get_team_leaders(call[2]))

NextLeaders == GetTeamLeaders

SpecLeaders == InitLeaders /\ [][NextLeaders]_vars

(***************************************************************************)
(* get_goalie_stats: the choice of the goalie.  A text is the sequence of  *)
(* its characters.                                                         *)
(***************************************************************************)
\* The most goalies a club-stats payload holds.
MaxGoalies == 3

\* str.lower() and str.upper() on one character, and str.lower() on a text.
LowerLetters ==
    <<"a", "b", "c", "d", "e", "f", "g", "h", "i", "j", "k", "l", "m",
      "n", "o", "p", "q", "r", "s", "t", "u", "v", "w", "x", "y", "z">>
UpperLetters ==
    <<"A", "B", "C", "D", "E", "F", "G", "H", "I", "J", "K", "L", "M",
      "N", "O", "P", "Q", "R", "S", "T", "U", "V", "W", "X", "Y", "Z">>
LowerChar(c) ==
    IF \E k \in DOMAIN UpperLetters : UpperLetters[k] = c
    THEN LowerLetters[CHOOSE k \in DOMAIN UpperLetters : UpperLetters[k] = c]
    ELSE c
UpperChar(c) ==
    IF \E k \in DOMAIN LowerLetters : LowerLetters[k] = c
    THEN UpperLetters[CHOOSE k \in DOMAIN LowerLetters : LowerLetters[k] = c]
    ELSE c
Lower(text) == [k \in DOMAIN text |-> LowerChar(text[k])]

\* needle in hay
Contains(hay, needle) ==
    \E k \in 0..(Len(hay) - Len(needle)) : SubSeq(hay, k + 1, k + Len(needle)) = needle

\* str.strip() where the text holds no other whitespace than spaces.
Strip(text) ==
    LET inked == {k \in DOMAIN text : text[k] # " "}
    IN IF inked = {} THEN <<>>
       ELSE SubSeq(text, Min(inked), CHOOSE k \in inked : \A j \in inked : j <= k)

\* f"{g.get('firstName', {}).get('default', '')} {g.get('lastName', {}).get('default', '')}"
FullName(g) == g.firstName \o <<" ">> \o g.lastName

\* The test looking for the hint in the name only.
NameHoldsHint(goalie_name_lower, full_name) == Contains(full_name, goalie_name_lower)

\* if goalie_name_lower in full_name or full_name in goalie_name_lower
NameMatches(goalie_name_lower, full_name) ==
    Contains(full_name, goalie_name_lower) \/ Contains(goalie_name_lower, full_name)

\* for g in goalies: if <the names match>: selected = g; break
\* (the place of g in goalies, 0 for None).
FirstMatch(goalies, goalie_name) ==
    LET at == {k \in DOMAIN goalies :
                  NameMatches(Lower(goalie_name), Lower(FullName(goalies[k])))}
    IN IF at = {} THEN 0 ELSE Min(at)

\* max(goalies, key=lambda x: x.get('gamesPlayed', 0)): max keeps the first
\* of the items with the greatest key.
RECURSIVE MaxLoop(_, _, _)
MaxLoop(goalies, k, best) ==
    IF k > Len(goalies) THEN best
    ELSE MaxLoop(goalies, k + 1,
                 IF goalies[k].gamesPlayed > goalies[best].gamesPlayed THEN k ELSE best)

\* get_goalie_stats with the goalies of the payload at hand; goalie_name is
\* empty when no name is given (None and '' take the same branch).  selected
\* is the place in goalies of the goalie whose figures are returned.
get_goalie_stats(goalies, goalie_name) ==
    IF goalies = <<>> THEN [found |-> FALSE]
    ELSE LET hinted == IF goalie_name # <<>> THEN FirstMatch(goalies, goalie_name) ELSE 0
             selected == IF hinted = 0 THEN MaxLoop(goalies, 2, 1) ELSE hinted
         IN [found |-> TRUE, selected |-> selected,
             name |-> Strip(FullName(goalies[selected])),
             games_started |-> goalies[selected].gamesPlayed]

Goalie(first, last, gp) == [firstName |-> first, lastName |-> last, gamesPlayed |-> gp]

GoaliePool ==
    { Goalie(<<"A">>, <<"b">>, 5),
      Goalie(<<"a">>, <<"B", "c">>, 5),
      Goalie(<<>>, <<>>, 0),
      Goalie(<<"c">>, <<"a">>, 9),
      Goalie(<<"A">>, <<"b">>, 9) }

\* The names asked for: none, a part of a name, a whole name, a text holding a
\* whole name, and a name nobody has.
HintPool ==
    { <<>>, <<"B">>, <<"A", " ", "B">>, <<"x", "a", " ", "b", "c">>, <<"x">> }

InitGoalie ==
    /\ NoGeneration
    /\ locals = <<>>
    /\ ret = <<>>
    /\ \E goalies \in UNION {[1..n -> GoaliePool] : n \in 0..MaxGoalies},
          goalie_name \in HintPool :
         call = <<"get_goalie_stats", goalies, goalie_name>>

GetGoalieStats == Returns("get_goalie_stats", get_goalie_stats(call[2], call[3]))

NextGoalie == GetGoalieStats

SpecGoalie == InitGoalie /\ [][NextGoalie]_vars

(***************************************************************************)
(* slug_to_name                                                            *)
(***************************************************************************)
\* The most segments of a slug.
MaxSegments == 3

\* text.split(sep): the pieces between the separators, empty pieces included.
Split(text, sep) ==
    LET at == {k \in DOMAIN text : text[k] = sep}
        cut(n) == IF n = 0 THEN 0
                  ELSE IF n > Cardinality(at) THEN Len(text) + 1
                  ELSE CHOOSE k \in at : Cardinality({j \in at : j < k}) = n - 1
    IN [n \in 1..(Cardinality(at) + 1) |-> SubSeq(text, cut(n - 1) + 1, cut(n) - 1)]

\* sep.join(words)
RECURSIVE JoinWith(_, _)
JoinWith(words, sep) ==
    IF words = <<>> THEN <<>>
    ELSE IF Len(words) = 1 THEN words[1]
    ELSE words[1] \o sep \o JoinWith(Tail(words), sep)

\* str.upper() on a text.
Upper(text) == [k \in DOMAIN text |-> UpperChar(text[k])]

\* str.capitalize(): the first character upper-cased, the others lower-cased.
Capitalize(text) ==
    IF text = <<>> THEN <<>> ELSE <<UpperChar(text[1])>> \o Lower(Tail(text))

\* str.startswith(prefix)
StartsWith(text, prefix) ==
    Len(text) >= Len(prefix) /\ SubSeq(text, 1, Len(prefix)) = prefix

\* The inner loop taking one initial and no more.
InitialsAlone(words, i, initials) == <<i, initials>>

\* while i + 1 < len(words) and len(words[i + 1]) == 1:
\*     i += 1; initials.append(words[i].upper())
\* (i counts from 0 as in the code: words[i] of the code is words[i + 1] here).
RECURSIVE InitialsLoop(_, _, _)
InitialsLoop(words, i, initials) ==
    IF i + 1 < Len(words) /\ Len(words[i + 2]) = 1
    THEN InitialsLoop(words, i + 1, Append(initials, Upper(words[i + 2])))
    ELSE <<i, initials>>

\* One turn of the loop of slug_to_name: the locals <<words, i, result>> after
\* the turn that starts with them.
SlugTurn(words, i, result) ==
    LET word == words[i + 1]
        word_lower == Lower(word)
    IN IF Len(word) = 1
       THEN LET run == InitialsLoop(words, i, <<Upper(word)>>)
            IN <<words, run[1] + 1,
                 Append(result, JoinWith(run[2], <<".">>) \o <<".">>)>>
       ELSE IF StartsWith(word_lower, <<"m", "c">>) /\ Len(word_lower) > 2
       THEN <<words, i + 1,
              Append(result, <<"M", "c">> \o Capitalize(SubSeq(word, 3, Len(word))))>>
       ELSE IF StartsWith(word_lower, <<"m", "a", "c">>) /\ Len(word_lower) > 3
       THEN <<words, i + 1,
              Append(result, <<"M", "a", "c">> \o Capitalize(SubSeq(word, 4, Len(word))))>>
       ELSE IF word_lower = <<"o">> /\ i + 1 < Len(words)
       THEN <<words, i + 2, Append(result, <<"O", "'">> \o Capitalize(words[i + 2]))>>
       ELSE <<words, i + 1, Append(result, Capitalize(word))>>

\* slug_to_name as a function: the loop run to its end.
RECURSIVE SlugLoop(_, _, _)
SlugLoop(words, i, result) ==
    IF i < Len(words)
    THEN LET next == SlugTurn(words, i, result) IN SlugLoop(next[1], next[2], next[3])
    ELSE JoinWith(result, <<" ">>)
slug_to_name(slug) == SlugLoop(Split(slug, "-"), 0, <<>>)

SegmentPool ==
    { <<"o">>, <<"j">>, <<"T">>, <<>>,
      <<"m", "c">>, <<"m", "c", "d", "A">>,
      <<"M", "a", "c">>, <<"m", "a", "c", "K", "i">>,
      <<"r", "E", "i">> }

ConnorMcdavid == <<"c", "o", "n", "n", "o", "r", "-", "m", "c", "d", "a", "v", "i", "d">>
JTMiller == <<"j", "-", "t", "-", "m", "i", "l", "l", "e", "r">>
OReilly == <<"o", "-", "r", "e", "i", "l", "l", "y">>

Slugs ==
    {JoinWith(segments, <<"-">>) :
        segments \in UNION {[1..n -> SegmentPool] : n \in 1..MaxSegments}}
    \cup {ConnorMcdavid, JTMiller, OReilly}

InitSlug ==
    /\ NoGeneration
    /\ locals = <<>>
    /\ ret = <<>>
    /\ \E slug \in Slugs : call = <<"slug_to_name", slug>>

\* words = slug.split("-"); result = []; i = 0
SlugEnter ==
    /\ call[1] = "slug_to_name"
    /\ locals = <<>>
    /\ ret = <<>>
    /\ locals' = <<Split(call[2], "-"), 0, <<>> >>
    /\ UNCHANGED <<call, ret, template, opponent, content, prev, pc, steps, days_ahead,
                   sched_fetches, game, skipped, warnings, fetched, outcome>>

\* while i < len(words): one turn
SlugStep ==
    /\ call[1] = "slug_to_name"
    /\ locals # <<>>
    /\ ret = <<>>
    /\ locals[2] < Len(locals[1])
    /\ locals' = SlugTurn(locals[1], locals[2], locals[3])
    /\ UNCHANGED <<call, ret, template, opponent, content, prev, pc, steps, days_ahead,
                   sched_fetches, game, skipped, warnings, fetched, outcome>>

\* return " ".join(result)
SlugReturn ==
    /\ call[1] = "slug_to_name"
    /\ locals # <<>>
    /\ ret = <<>>
    /\ locals[2] >= Len(locals[1])
    /\ ret' = <<JoinWith(locals[3], <<" ">>)>>
    /\ UNCHANGED <<call, locals, template, opponent, content, prev, pc, steps,
                   days_ahead, sched_fetches, game, skipped, warnings, fetched, outcome>>

NextSlug == SlugEnter \/ SlugStep \/ SlugReturn

\* The loop is the only thing the call does, so it goes on while it can.
SpecSlug == InitSlug /\ [][NextSlug]_vars /\ WF_vars(NextSlug)

(***************************************************************************)
(* get_line_combinations: the parsing of the roster page.  The page is a   *)
(* sequence of the pieces the function tells apart:                        *)
(*   <<"link", slug, "">>   href="/players/news/<slug>/<digits>"           *)
(*   <<"marker", "", "">>   >Injuries<                                     *)
(*   <<"kw", text, "">>     a status keyword: >out<, >out , >dtd<,         *)
(*                          day-to-day, >ltir< or >ir< (in any case)       *)
(*   <<"pad", "", n>>       n characters of other markup                   *)
(***************************************************************************)
\* The most players the roster region links to, and the most entries the
\* injuries region holds.
MaxPlayers == 21
MaxInjured == 2

\* html[injuries_start:injuries_start+10000]
InjuryWindow == 10000
\* injuries_section[player_idx:player_idx+500]
StatusWindow == 500

Link(slug) == <<"link", slug, "">>
Marker == <<"marker", "", "">>
Keyword(text) == <<"kw", text, "">>
Pad(n) == <<"pad", "", n>>

\* The characters before the slug in a link, and the characters of a piece.
SlugAt(sym) == 20
Width(sym) ==
    CASE sym[1] = "link" -> 20 + Len(sym[2]) + 5
      [] sym[1] = "marker" -> 10
      [] sym[1] = "kw" -> (CASE sym[2] = "day-to-day" -> 10
                            [] sym[2] = ">ltir<" -> 6
                            [] sym[2] = ">ir<" -> 4
                            [] OTHER -> 5)
      [] sym[1] = "pad" -> sym[3]

\* The index in the text of the first character of the k-th piece.
RECURSIVE Offset(_, _)
Offset(html, k) == IF k = 1 THEN 0 ELSE Offset(html, k - 1) + Width(html[k - 1])

\* html.find('>Injuries<'): the place of the first marker among the pieces, 0
\* when there is none, and its index in the text, -1 when there is none.
MarkerPiece(html) == First({k \in DOMAIN html : html[k][1] = "marker"})
FindMarker(html) == IF MarkerPiece(html) = 0 THEN -1 ELSE Offset(html, MarkerPiece(html))

\* re.findall(r'href="/players/news/([a-zA-Z0-9-]+)/\d+"', text)
IsLink(sym) == sym[1] = "link"
FindAllSlugs(text) ==
    LET links == SelectSeq(text, IsLink) IN [k \in DOMAIN links |-> links[k][2]]

\* The key of the test that tells players apart by the very text of the slug.
SeenKeyExact(s) == s

\* slug_lower = s.lower()
SeenKey(s) == Lower(s)

\* for s in player_slugs: if slug_lower not in seen: seen.add(slug_lower);
\* unique_slugs.append(s)
RECURSIVE DedupLoop(_, _, _, _)
DedupLoop(player_slugs, k, seen, unique_slugs) ==
    IF k > Len(player_slugs) THEN <<seen, unique_slugs>>
    ELSE IF SeenKey(player_slugs[k]) \notin seen
         THEN DedupLoop(player_slugs, k + 1, seen \cup {SeenKey(player_slugs[k])},
                        Append(unique_slugs, player_slugs[k]))
         ELSE DedupLoop(player_slugs, k + 1, seen, unique_slugs)

\* for i, name in enumerate(names): num = i // size; if num < len(groups):
\* groups[num].append(name)
RECURSIVE GroupLoop(_, _, _, _)
GroupLoop(names, i, size, groups) ==
    IF i >= Len(names) THEN groups
    ELSE GroupLoop(names, i + 1, size,
                   IF i \div size < Len(groups)
                   THEN [groups EXCEPT ![i \div size + 1] = Append(@, names[i + 1])]
                   ELSE groups)

\* player_names[lo:hi]
PySlice(names, lo, hi) == SubSeq(names, lo + 1, IF hi < Len(names) THEN hi ELSE Len(names))

\* The pieces of html[start:start+size] when the start-th piece begins at
\* start: the pieces that lie within the size characters.
PiecesWithin(html, first, size) ==
    LET inside == {k \in first..Len(html) :
                      Offset(html, k) + Width(html[k]) <= Offset(html, first) + size}
    IN IF inside = {} THEN <<>>
       ELSE SubSeq(html, first, CHOOSE k \in inside : \A j \in inside : j <= k)

\* hay.find(needle) for texts the second holds: the index of the first occurrence.
FindIn(hay, needle) ==
    Min({k \in 0..(Len(hay) - Len(needle)) : SubSeq(hay, k + 1, k + Len(needle)) = needle})

\* injuries_section.lower().find(slug_lower): slugs stand in links only; the
\* index, in the section, of the first occurrence, -1 when there is none.
FindSlug(injuries_section, slug_lower) ==
    LET holds == {k \in DOMAIN injuries_section :
                     /\ IsLink(injuries_section[k])
                     /\ Contains(Lower(injuries_section[k][2]), slug_lower)}
    IN IF holds = {} THEN -1
       ELSE Offset(injuries_section, Min(holds)) + SlugAt(injuries_section[Min(holds)])
            + FindIn(Lower(injuries_section[Min(holds)][2]), slug_lower)

\* The status keywords in injuries_section[player_idx:player_idx+500].lower().
KeywordsNearby(injuries_section, player_idx) ==
    {injuries_section[k][2] : k \in
        {j \in DOMAIN injuries_section :
            /\ injuries_section[j][1] = "kw"
            /\ Offset(injuries_section, j) >= player_idx
            /\ Offset(injuries_section, j) + Width(injuries_section[j])
                  <= player_idx + StatusWindow}}

\* The chain of tests asking for day-to-day before out.
StatusDtdFirst(nearby) ==
    IF ">dtd<" \in nearby \/ "day-to-day" \in nearby THEN "DTD"
    ELSE IF ">out<" \in nearby \/ ">out " \in nearby THEN "OUT"
    ELSE IF ">ltir<" \in nearby THEN "LTIR"
    ELSE "IR"

\* status = "IR"; if '>out<' in nearby or '>out ' in nearby: ... elif ...
StatusOf(nearby) ==
    IF ">out<" \in nearby \/ ">out " \in nearby THEN "OUT"
    ELSE IF ">dtd<" \in nearby \/ "day-to-day" \in nearby THEN "DTD"
    ELSE IF ">ltir<" \in nearby THEN "LTIR"
    ELSE IF ">ir<" \in nearby THEN "IR"
    ELSE "IR"

\* for slug in injury_slugs: ... lines['injuries'].append(...).  The section
\* starts with the marker, so the slug of a link is found at an index over 0
\* and status is assigned in every turn.
RECURSIVE InjuryLoop(_, _, _, _, _, _)
InjuryLoop(injuries_section, injury_slugs, k, seen, seen_injured, injuries) ==
    IF k > Len(injury_slugs) THEN injuries
    ELSE LET slug == injury_slugs[k]
             slug_lower == Lower(slug)
             player_idx == FindSlug(injuries_section, slug_lower)
         IN IF slug_lower \notin seen_injured /\ slug_lower \notin seen
            THEN InjuryLoop(injuries_section, injury_slugs, k + 1, seen,
                            seen_injured \cup {slug_lower},
                            Append(injuries,
                                   [name |-> slug_to_name(slug),
                                    status |-> StatusOf(KeywordsNearby(injuries_section,
                                                                       player_idx)),
                                    detail |-> "Undisclosed"]))
            ELSE InjuryLoop(injuries_section, injury_slugs, k + 1, seen, seen_injured,
                            injuries)

\* get_line_combinations with the fetched page at hand (a page of no text is
\* taken for a failed fetch: if not html: return None).
get_line_combinations(html) ==
    IF html = <<>> THEN [found |-> FALSE]
    ELSE LET injuries_marker == FindMarker(html)
             roster_html == IF injuries_marker > 0
                            THEN SubSeq(html, 1, MarkerPiece(html) - 1) ELSE html
             deduped == DedupLoop(FindAllSlugs(roster_html), 1, {}, <<>>)
             seen == deduped[1]
             unique_slugs == deduped[2]
             player_names == [k \in DOMAIN unique_slugs |-> slug_to_name(unique_slugs[k])]
             injuries_section == PiecesWithin(html, MarkerPiece(html), InjuryWindow)
         IN [found |-> TRUE,
             forwards |-> GroupLoop(PySlice(player_names, 0, 12), 0, 3,
                                    << <<>>, <<>>, <<>>, <<>> >>),
             defense |-> GroupLoop(PySlice(player_names, 12, 18), 0, 2,
                                   << <<>>, <<>>, <<>> >>),
             goalies |-> IF Len(player_names) > 18 THEN PySlice(player_names, 18, 20)
                         ELSE <<>>,
             injuries |-> IF injuries_marker > 0
                          THEN InjuryLoop(injuries_section, FindAllSlugs(injuries_section),
                                          1, seen, {}, <<>>)
                          ELSE <<>>]

\* The slug of the k-th player of a roster, and the same slug in capitals.
PlayerSlug(k) == <<"p", LowerLetters[k]>>
CapitalSlug(k) == <<"P", UpperLetters[k]>>

\* The links of a roster region of n players, the link of the player dup in
\* capitals following the link of the player after (dup = 0: no such link).
RosterLinks(n, dup, after) ==
    [k \in 1..(IF dup = 0 THEN n ELSE n + 1) |->
        IF dup = 0 \/ k <= after THEN Link(PlayerSlug(k))
        ELSE IF k = after + 1 THEN Link(CapitalSlug(dup))
        ELSE Link(PlayerSlug(k - 1))]

\* The text every page starts with.
Doctype == Pad(15)

\* What follows the roster region: nothing, the marker alone, or the marker
\* and one injured player.
Tails ==
    { <<>>, <<Marker>>, <<Marker, Link(<<"n", "a">>), Pad(20), Keyword(">out<")>> }

RosterPages ==
    {<<Doctype>> \o RosterLinks(n, d[1], d[2]) \o tail :
        n \in 0..MaxPlayers,
        d \in {<<0, 0>>} \cup ({1, 12} \X {1, 12, MaxPlayers}),
        tail \in Tails}

\* The entries of an injuries region.
InjuryEntries ==
    { <<Link(<<"n", "a">>), Pad(20), Keyword(">out<")>>,
      <<Link(<<"N", "A">>), Pad(20), Keyword(">dtd<")>>,
      <<Link(<<"n", "c">>)>>,
      <<Link(<<"n", "c">>), Pad(500), Keyword(">out<")>>,
      <<Link(<<"n", "c">>), Pad(20), Keyword("day-to-day")>>,
      <<Link(<<"n", "c">>), Pad(20), Keyword(">ltir<"), Keyword(">out ")>>,
      <<Link(<<"n", "c">>), Pad(20), Keyword(">ir<"), Keyword(">ltir<")>>,
      <<Link(CapitalSlug(1)), Pad(20), Keyword(">out<")>>,
      <<Link(<<"x", "-", "n", "a">>), Pad(20), Keyword(">dtd<")>>,
      <<Pad(10000), Link(<<"n", "c">>), Keyword(">out<")>>,
      <<Pad(500)>> }

RECURSIVE Flatten(_)
Flatten(entries) == IF entries = <<>> THEN <<>> ELSE Head(entries) \o Flatten(Tail(entries))

InjuryPages ==
    {<<Doctype, Link(PlayerSlug(1)), Marker>> \o Flatten(entries) :
        entries \in UNION {[1..n -> InjuryEntries] : n \in 0..MaxInjured}}

InitLines ==
    /\ NoGeneration
    /\ locals = <<>>
    /\ ret = <<>>
    /\ \E html \in RosterPages \cup InjuryPages \cup {<<>>} :
         call = <<"get_line_combinations", html>>

GetLineCombinations ==
    Returns("get_line_combinations", get_line_combinations(call[2]))

NextLines == GetLineCombinations

SpecLines == InitLines /\ [][NextLines]_vars

(***************************************************************************)
(* update_team_section, get_goalie_stats: the text of the figures          *)
(***************************************************************************)
\* The highest division rank rendered.
MaxRank == 125

\* The highest percentage rendered, in thousandths.
MaxThousandths == 1000

DigitChars == <<"0", "1", "2", "3", "4", "5", "6", "7", "8", "9">>

\* str(n) of a natural number: its decimal digits, the highest first.
RECURSIVE Digits(_)
Digits(n) ==
    IF n < 10 THEN <<DigitChars[n + 1]>>
    ELSE Digits(n \div 10) \o <<DigitChars[(n % 10) + 1]>>

\* A suffix by the last digit alone.
ordinalByLastDigit(n) ==
    Digits(n) \o <<<<"t", "h">>, <<"s", "t">>, <<"n", "d">>, <<"r", "d">>,
                   <<"t", "h">>>>[(IF n % 10 < 4 THEN n % 10 ELSE 4) + 1]

\* ordinal(n): the number and its suffix.
ordinal(n) ==
    LET suffix == IF 11 <= n % 100 /\ n % 100 <= 13
                  THEN <<"t", "h">>
                  ELSE <<<<"t", "h">>, <<"s", "t">>, <<"n", "d">>, <<"r", "d">>,
                         <<"t", "h">>>>[(IF n % 10 < 4 THEN n % 10 ELSE 4) + 1]
    IN  Digits(n) \o suffix

\* The text a replacement puts before and after a value, between the groups
\* \1 and \2 of its pattern.
Indent == <<"\n", "\t", "\t", "\t", "\t">>
Outdent == <<"\n", "\t", "\t", "\t">>

\* record = f"{wins}-{losses}-{otl}".
record(wins, losses, otl) ==
    Digits(wins) \o <<"-">> \o Digits(losses) \o <<"-">> \o Digits(otl)

\* What record_replacement writes between the tags of the placeholder.
record_replacement(wins, losses, otl, points) ==
    Indent \o record(wins, losses, otl) \o <<" ", "(", "<", "b", ">">> \o Digits(points)
        \o <<" ", "P", "o", "i", "n", "t", "s", "<", "/", "b", ">", ")">> \o Outdent

\* What pos_replacement writes between the tags of the placeholder.
pos_replacement(div_rank, div_name) ==
    Indent \o ordinal(div_rank) \o <<" ", "&", "m", "d", "a", "s", "h", ";", " ">>
        \o div_name \o Outdent

\* f"{n:03d}": at least three digits, zeros in front.
ZeroPad3(n) ==
    LET d == Digits(n) IN
    IF Len(d) >= 3 THEN d ELSE [k \in 1..(3 - Len(d)) |-> "0"] \o d

\* pct_str = f".{int(pts_pct * 1000):03d}"[:4], of a value of k thousandths.
pct_str(k) == PySlice(<<".">> \o ZeroPad3(k), 0, 4)

\* 'sv_pct' of get_goalie_stats, of a save percentage of k thousandths.
sv_pct(k) == IF k > 0 THEN PySlice(<<".">> \o ZeroPad3(k), 0, 4) ELSE <<".", "0", "0", "0">>

\* The hundredths f"{x:.2f}" may round a value of g thousandths to: the
\* nearest, and at a tie the one the binary value of x lies nearer to.
Hundredths(g) ==
    IF g % 10 < 5 THEN {g \div 10}
    ELSE IF g % 10 > 5 THEN {(g \div 10) + 1}
    ELSE {g \div 10, (g \div 10) + 1}

\* f"{x:.2f}" of a value of q hundredths.
Fixed2(q) ==
    Digits(q \div 100) \o <<".", DigitChars[((q % 100) \div 10) + 1], DigitChars[(q % 10) + 1]>>

Metropolitan == <<"M", "e", "t", "r", "o", "p", "o", "l", "i", "t", "a", "n">>
Atlantic == <<"A", "t", "l", "a", "n", "t", "i", "c">>

\* The standings entries rendered: their wins, losses, overtime losses and
\* points.
Entries == {10, 0} \X {3} \X {2, 11} \X {22, 104}

\* The goals against averages rendered, in thousandths.
Averages == {0, 995, 2456, 2500, 2675, 12345}

InitRender ==
    /\ NoGeneration
    /\ locals = <<>>
    /\ ret = <<>>
    /\ \/ \E e \in Entries, r \in 0..MaxRank, D \in {Metropolitan, Atlantic} :
             call = <<"standings", e, r, D>>
       \/ \E k \in 0..MaxThousandths : call = <<"pct_str", k>>
       \/ \E k \in 0..MaxThousandths : call = <<"sv_pct", k>>
       \/ \E g \in Averages : call = <<"gaa", g>>

\* The record field and the position field of one standings entry.
RenderStandings ==
    /\ call # <<>>
    /\ call[1] = "standings"
    /\ Returns("standings", <<record_replacement(call[2][1], call[2][2], call[2][3], call[2][4]),
                              pos_replacement(call[3], call[4])>>)

RenderPct ==
    /\ call # <<>>
    /\ call[1] = "pct_str"
    /\ Returns("pct_str", pct_str(call[2]))

RenderSvPct ==
    /\ call # <<>>
    /\ call[1] = "sv_pct"
    /\ Returns("sv_pct", sv_pct(call[2]))

RenderGaa ==
    /\ call # <<>>
    /\ call[1] = "gaa"
    /\ \E q \in Hundredths(call[2]) : Returns("gaa", Fixed2(q))

NextRender == RenderStandings \/ RenderPct \/ RenderSvPct \/ RenderGaa

SpecRender == InitRender /\ [][NextRender]_vars

(***************************************************************************)
(* get_team_abbrev and the callers of update_template                      *)
(***************************************************************************)
\* TEAM_MAPPINGS, for the teams of the model: each alias and its code.
TEAM_MAPPINGS ==
    {<<<<"n", "e", "w", " ", "y", "o", "r", "k", " ", "r", "a", "n", "g", "e", "r", "s">>, "NYR">>,
     <<<<"r", "a", "n", "g", "e", "r", "s">>, "NYR">>,
     <<<<"n", "y", "r">>, "NYR">>,
     <<<<"b", "o", "s", "t", "o", "n", " ", "b", "r", "u", "i", "n", "s">>, "BOS">>,
     <<<<"b", "r", "u", "i", "n", "s">>, "BOS">>,
     <<<<"b", "u", "f", "f", "a", "l", "o", " ", "s", "a", "b", "r", "e", "s">>, "BUF">>,
     <<<<"s", "a", "b", "r", "e", "s">>, "BUF">>,
     <<<<"a", "r", "i", "z", "o", "n", "a", " ", "c", "o", "y", "o", "t", "e", "s">>, "ARI">>,
     <<<<"c", "o", "y", "o", "t", "e", "s">>, "ARI">>,
     <<<<"y", "o", "t", "e", "s">>, "ARI">>}

\* The text of a code.
CodeText(t) ==
    CASE t = "NYR" -> <<"N", "Y", "R">>
      [] t = "BOS" -> <<"B", "O", "S">>
      [] t = "BUF" -> <<"B", "U", "F">>
      [] t = "ARI" -> <<"A", "R", "I">>

\* None, which no code equals.
NoTeam == "None"

\* A resolver that compares the text as it was typed.
get_team_abbrev_as_typed(team_input) ==
    LET normalized == Strip(team_input)
        codes == {m[2] : m \in TEAM_MAPPINGS}
    IN IF \E m \in TEAM_MAPPINGS : m[1] = normalized
       THEN (CHOOSE m \in TEAM_MAPPINGS : m[1] = normalized)[2]
       ELSE IF \E t \in codes : CodeText(t) = normalized
       THEN CHOOSE t \in codes : CodeText(t) = normalized
       ELSE NoTeam

\* get_team_abbrev: the code of a team name, None when there is none.
get_team_abbrev(team_input) ==
    LET normalized == Strip(Lower(team_input))
        codes == {m[2] : m \in TEAM_MAPPINGS}
    IN IF \E m \in TEAM_MAPPINGS : m[1] = normalized
       THEN (CHOOSE m \in TEAM_MAPPINGS : m[1] = normalized)[2]
       ELSE IF \E t \in codes : CodeText(t) = Upper(normalized)
       THEN CHOOSE t \in codes : CodeText(t) = Upper(normalized)
       ELSE NoTeam

\* The opponent texts of the requests.
OpponentTexts ==
    {<<" ", "S", "a", "b", "r", "e", "s", " ">>,
     <<"b", "u", "f">>,
     <<"B", "U", "F", "F", "A", "L", "O", " ", "S", "A", "B", "R", "E", "S">>,
     <<"Y", "O", "T", "E", "S">>,
     <<"B", "r", "u", "i", "n", "s">>,
     <<"r", "a", "n", "g", "e", "r", "s">>,
     <<" ", "N", "Y", "R">>,
     <<"n", "Y", "r">>,
     <<"N", "e", "w", " ", "Y", "o", "r", "k", " ", "R", "a", "n", "g", "e", "r", "s">>,
     <<"s", "a", "b", "r", "e">>,
     <<"b", "u", "f", "f", "a", "l", "o", " ", " ", "s", "a", "b", "r", "e", "s">>,
     <<" ", " ", " ">>,
     <<>>}

\* The requests to generate: an opponent text and a template.  Every template
\* comes with one text, and every text with the shortest template.
GenerateRequests ==
    ({<<" ", "S", "a", "b", "r", "e", "s", " ">>} \X {TemplateFull, TemplatePre, TemplateOne})
        \cup (OpponentTexts \X {TemplateOne})
        \cup {<<<<"Y", "O", "T", "E", "S">>, TemplateFull>>}

InitGenerate ==
    /\ \E r \in GenerateRequests : call = <<"generate", r[1], r[2]>>
    /\ template = <<>>
    /\ opponent = NoTeam
    /\ content = <<>>
    /\ prev = <<>>
    /\ pc = "request"
    /\ steps = <<>>
    /\ days_ahead = 0
    /\ sched_fetches = 0
    /\ game = NoGame
    /\ skipped = FALSE
    /\ warnings = {}
    /\ fetched = <<>>
    /\ outcome = "none"
    /\ locals = <<>>
    /\ ret = <<>>

\* generate of app.py, and main, up to the call of update_template: the
\* opponent text is resolved; a text that is empty once stripped, that no
\* team answers to, or that names the Rangers, is answered with an error.
Generate ==
    /\ pc = "request"
    /\ LET opponent_text == Strip(call[2])
           opponent_abbrev == get_team_abbrev(opponent_text)
       IN IF opponent_text = <<>> \/ opponent_abbrev = NoTeam \/ opponent_abbrev = NYR
          THEN /\ ret' = <<400>>
               /\ outcome' = "error"
               /\ pc' = "done"
               /\ UNCHANGED <<template, opponent, content, prev, steps>>
          ELSE /\ opponent' = opponent_abbrev
               /\ template' = call[3]
               /\ content' = call[3]
               /\ prev' = call[3]
               /\ steps' = <<"Loaded">>
               /\ pc' = "logos"
               /\ UNCHANGED <<ret, outcome>>
    /\ UNCHANGED <<call, locals, days_ahead, sched_fetches, game, skipped, warnings, fetched>>

NextGenerate == Generate \/ Next

SpecGenerate == InitGenerate /\ [][NextGenerate]_vars

(***************************************************************************)
(* Two calls of update_template at a time                                  *)
(***************************************************************************)
\* A request with the data its fetches bring: the game found (NoGame when
\* none is), whether the game number came, and for each team whether the
\* standings came and what the later fetches brought.
Generation(t, o, g, number, a, b) ==
    [template |-> t, opponent |-> o, game |-> g, number |-> number, teamA |-> a, teamB |-> b]

Standings(ok, sum, lead, goal, lines) ==
    [standings |-> ok, d |-> [sum |-> sum, lead |-> lead, goal |-> goal, lines |-> lines]]

Generations ==
    { Generation(TemplateFull, "BUF",
                 [id |-> "g1", away |-> NYR, home |-> "BUF", start |-> TRUE, tv |-> TRUE,
                  link |-> TRUE], TRUE,
                 Standings(TRUE, TRUE, TRUE, TRUE, 20), Standings(TRUE, TRUE, TRUE, TRUE, 20)),
      Generation(TemplateFull, "BOS", NoGame, FALSE,
                 Standings(TRUE, TRUE, FALSE, TRUE, 7), Standings(FALSE, FALSE, FALSE, FALSE, -1)),
      Generation(TemplateOne, "BUF",
                 [id |-> "g2", away |-> "BUF", home |-> NYR, start |-> FALSE, tv |-> FALSE,
                  link |-> FALSE], FALSE,
                 Standings(TRUE, FALSE, TRUE, FALSE, -1), Standings(TRUE, TRUE, TRUE, TRUE, 20)),
      Generation(TemplatePre, "ARI", NoGame, FALSE,
                 Standings(FALSE, FALSE, FALSE, FALSE, -1), Standings(TRUE, TRUE, TRUE, FALSE, 20)) }

\* The module-level tables a generation reads, as they stand at startup.
Tables == [t \in Teams |-> TEAM_LOGO_URLS(t)]

\* One buffer for every call.
SharedFrame(g) == 1

\* template_content is a local of update_template: each call has its own.
Frame(g) == g

\* locals holds the position of each call, the buffer of each frame and the
\* tables; ret holds what each call returned.
InitConcurrent ==
    /\ NoGeneration
    /\ \E r1 \in Generations, r2 \in Generations : call = <<"update_template", <<r1, r2>> >>
    /\ locals = << <<"logos", "logos">>, <<call[2][1].template, call[2][2].template>>, Tables >>
    /\ ret = << <<>>, <<>> >>

\* The call g goes from the position at to the position to with the buffer
\* buf; no step writes a table.
Moves(g, at, to, buf) ==
    /\ call # <<>>
    /\ call[1] = "update_template"
    /\ locals[1][g] = at
    /\ locals' = << [locals[1] EXCEPT ![g] = to],
                    [locals[2] EXCEPT ![Frame(g)] = buf],
                    locals[3] >>
    /\ UNCHANGED <<call, ret, template, opponent, content, prev, pc, steps, days_ahead,
                   sched_fetches, game, skipped, warnings, fetched, outcome>>

\* update_team_logos of the call g.
StepLogos(g) ==
    /\ call # <<>>
    /\ call[1] = "update_template"
    /\ Moves(g, "logos", "header",
             update_team_logos(locals[2][Frame(g)], NYR, call[2][g].opponent))

\* find_next_game and update_game_header of the call g.
StepHeader(g) ==
    /\ call # <<>>
    /\ call[1] = "update_template"
    /\ Moves(g, "header", "teamA",
             IF call[2][g].game = NoGame THEN locals[2][Frame(g)]
             ELSE update_game_header(locals[2][Frame(g)], call[2][g].game, call[2][g].number))

\* update_team_section of the call g for the Rangers.
StepTeamA(g) ==
    /\ call # <<>>
    /\ call[1] = "update_template"
    /\ Moves(g, "teamA", "teamB",
             IF ~call[2][g].teamA.standings THEN locals[2][Frame(g)]
             ELSE PatchSection(locals[2][Frame(g)], NYR, TRUE, call[2][g].teamA.d))

\* update_team_section of the call g for the opponent.
StepTeamB(g) ==
    /\ call # <<>>
    /\ call[1] = "update_template"
    /\ Moves(g, "teamB", "return",
             IF ~call[2][g].teamB.standings THEN locals[2][Frame(g)]
             ELSE PatchSection(locals[2][Frame(g)], call[2][g].opponent, FALSE,
                               call[2][g].teamB.d))

\* return template_content of the call g.
StepReturn(g) ==
    /\ call # <<>>
    /\ call[1] = "update_template"
    /\ locals[1][g] = "return"
    /\ locals' = << [locals[1] EXCEPT ![g] = "done"], locals[2], locals[3] >>
    /\ ret' = [ret EXCEPT ![g] = <<locals[2][Frame(g)]>>]
    /\ UNCHANGED <<call, template, opponent, content, prev, pc, steps, days_ahead,
                   sched_fetches, game, skipped, warnings, fetched, outcome>>

NextConcurrent ==
    \E g \in 1..2 :
        \/ StepLogos(g)
        \/ StepHeader(g)
        \/ StepTeamA(g)
        \/ StepTeamB(g)
        \/ StepReturn(g)

SpecConcurrent == InitConcurrent /\ [][NextConcurrent]_vars

(***************************************************************************)
(* update_team_section and update_team_logos, applied twice                *)
(***************************************************************************)
\* Both layouts of the lineup with one separator only.
TemplateJoined ==
    OldLogo("a") \o FullFields \o LineupBlockA \o InjuriesBlock
      \o <<HR>> \o OldLogo("b") \o FullFields \o LineupBlockB \o InjuriesBlock

\* A call of update_team_section on a template with the data its fetches
\* bring, or a call of update_team_logos; locals holds what the first
\* application returned, ret what the second returned.
InitTwice ==
    /\ NoGeneration
    /\ locals = <<>>
    /\ ret = <<>>
    /\ \/ \E t \in {TemplateFull, TemplatePre, TemplateOne, TemplateJoined},
             p \in {<<NYR, TRUE>>, <<"BUF", FALSE>>}, d \in TeamData :
               call = <<"update_team_section", t, p[1], p[2], d>>
       \/ \E t \in {TemplateFull, TemplatePre, TemplateOne, TemplateJoined},
             o \in {"BUF", "ARI"} :
               call = <<"update_team_logos", t, o>>

\* content = update_team_section(content, team_abbrev, is_first_team)
SectionOnce ==
    /\ pc = "call"
    /\ call # <<>>
    /\ call[1] = "update_team_section"
    /\ locals = <<>>
    /\ locals' = <<PatchSection(call[2], call[3], call[4], call[5])>>
    /\ UNCHANGED <<call, ret, template, opponent, content, prev, pc, steps, days_ahead,
                   sched_fetches, game, skipped, warnings, fetched, outcome>>

\* The same call on the buffer the first one returned, the fetches bringing
\* the same data.
SectionAgain ==
    /\ call # <<>>
    /\ call[1] = "update_team_section"
    /\ locals # <<>>
    /\ Returns("update_team_section", PatchSection(locals[1], call[3], call[4], call[5]))

\* content = update_team_logos(content, nyr_abbrev, opponent_abbrev)
LogosOnce ==
    /\ pc = "call"
    /\ call # <<>>
    /\ call[1] = "update_team_logos"
    /\ locals = <<>>
    /\ locals' = <<update_team_logos(call[2], NYR, call[3])>>
    /\ UNCHANGED <<call, ret, template, opponent, content, prev, pc, steps, days_ahead,
                   sched_fetches, game, skipped, warnings, fetched, outcome>>

\* The same call on the buffer the first one returned.
LogosAgain ==
    /\ call # <<>>
    /\ call[1] = "update_team_logos"
    /\ locals # <<>>
    /\ Returns("update_team_logos", update_team_logos(locals[1], NYR, call[3]))

NextTwice == SectionOnce \/ SectionAgain \/ LogosOnce \/ LogosAgain

SpecTwice == InitTwice /\ [][NextTwice]_vars

(***************************************************************************)
(* The properties                                                          *)
(***************************************************************************)
\* The steps of a generation, in order.
Chain == <<"Loaded", "LogosPatched", "HeaderPatched", "TeamAPatched", "TeamBPatched", "Done">>

IsPrefix(s, t) == Len(s) <= Len(t) /\ s = SubSeq(t, 1, Len(s))

\* The symbols of buf from position i on.
Suffix(buf, i) == SubSeq(buf, i, Len(buf))

\* Whether the standings of team t were missing in this generation.
StandingsMissing(t) == <<"standings-error", t>> \in warnings

\* C1: if the standings of a requested team are missing the generation aborts:
\* the caller reports an error and no document is written or returned.
C1_StandingsFailureAborts ==
    (\E t \in Teams : StandingsMissing(t)) => outcome # "document"

\* C2: at the moment the standings of the first team are found missing no
\* substitution has been applied: the buffer is still the template.
C2_AbortBeforePatching ==
    (pc = "teamB" /\ StandingsMissing(NYR)) => content = template

\* C3: the steps a generation has passed are the first steps of the chain
\* Loaded, LogosPatched, HeaderPatched, TeamAPatched, TeamBPatched, Done, in
\* that order and none of them twice; a generation that returns has passed all
\* six; and a step goes on to the next one whatever it found: the logos step
\* with a missing logo or fewer than four matches, the header step with no
\* game found, a team step with anchors or a roster it did not find.
StepsAt(p) ==
    CASE p = "logos" -> 1
      [] p \in {"search", "found", "notfound"} -> 2
      [] p = "teamA" -> 3
      [] p = "teamB" -> 4
      [] p = "return" -> 5
      [] p = "done" -> 6
      [] OTHER -> 0

StepGoesOn ==
    /\ pc = "logos" => pc' = "search" /\ steps' = Append(steps, "LogosPatched")
    /\ pc = "notfound" => pc' = "teamA" /\ steps' = Append(steps, "HeaderPatched")
    /\ (pc = "found" /\ pc' # "raised")
         => pc' = "teamA" /\ steps' = Append(steps, "HeaderPatched")
    /\ (pc = "teamA" /\ pc' # "raised")
         => pc' = "teamB" /\ steps' = Append(steps, "TeamAPatched")
    /\ (pc = "teamB" /\ pc' # "raised")
         => pc' = "return" /\ steps' = Append(steps, "TeamBPatched")
    /\ pc = "return" => pc' = "done" /\ steps' = Append(steps, "Done")

C3_StepsInOrder ==
    /\ [](/\ IsPrefix(steps, Chain)
          /\ pc # "raised" => Len(steps) = StepsAt(pc)
          /\ pc = "done" => steps = Chain)
    /\ [][StepGoesOn]_vars

\* A generation that met every soft failure and still returned a document:
\* fewer than four logos, no game, no header anchor, no roster page.
C3_Witness ==
    /\ pc = "done" /\ steps = Chain /\ outcome = "document"
    /\ template = TemplateOne
    /\ {<<"fewer-than-4-logos", "">>, <<"no-game", "">>} \subseteq warnings
    /\ \E i \in 1..Len(fetched) : fetched[i] = <<"line-combinations", NYR, "none">>

\* The teams whose rendered data stands in the symbols lo..hi of buf.
ValueTeams(buf, lo, hi) ==
    {buf[i][3] : i \in {j \in lo..hi : Kind(buf[j]) \in {"val", "valp", "el"}
                                      /\ buf[j][2] \notin {"tv", "radio"}}}

\* Whether the symbols lo..hi of buf hold the placeholder of the record.
HasRecordField(buf, lo, hi) == \E i \in lo..hi : buf[i] = Sym("p", "RECORD", "")

\* C4: in a buffer with at least two separators the first team's patch changes
\* nothing at or after the second separator, and the second team's patch
\* changes nothing before the second separator of the buffer as the first
\* team's patch left it; once both are done the fields before the second
\* separator hold no value of the opponent and those after it none of the
\* first team, and the record of either region is the record of its team.
C4_RegionIsolation ==
    LET h == hr_matches(prev)
        g == hr_matches(content)
    IN Len(h) >= 2 =>
         /\ pc = "teamB" =>
              /\ Len(g) = Len(h)
              /\ Suffix(content, g[2]) = Suffix(prev, h[2])
         /\ pc = "return" =>
              /\ Len(g) = Len(h)
              /\ SubSeq(content, 1, g[2] - 1) = SubSeq(prev, 1, h[2] - 1)
              /\ opponent \notin ValueTeams(content, 1, g[2] - 1)
              /\ NYR \notin ValueTeams(content, g[2], Len(content))
              /\ (~StandingsMissing(NYR) /\ HasRecordField(content, 1, g[2] - 1))
                   => \E i \in 1..(g[2] - 1) : content[i] = Sym("val", "RECORD", NYR)
              /\ (~StandingsMissing(opponent) /\ HasRecordField(content, g[2], Len(content)))
                   => \E i \in g[2]..Len(content) :
                        content[i] = Sym("val", "RECORD", opponent)

\* Both teams patched, with the same labels in both regions: each record is
\* its own team's, and the goals leader of either region too.
C4_Witness ==
    LET g == hr_matches(content)
    IN /\ pc = "return" /\ template = TemplateFull
       /\ \E i \in 1..(g[2] - 1) : content[i] = Sym("val", "GOALS", NYR)
       /\ \E i \in g[2]..Len(content) : content[i] = Sym("val", "GOALS", opponent)
       /\ \E i \in g[2]..Len(content) : content[i] = Sym("val", "forwards", opponent)

\* C5 as the specification states it: the first team's patch changes nothing
\* before the first separator (nor at or after the second), and the second
\* team's changes nothing before the second separator nor at or after the third.
C5_RegionFromFirstSeparator ==
    LET h == hr_matches(prev)
        g == hr_matches(content)
    IN Len(h) >= 2 =>
         /\ pc = "teamB" =>
              /\ SubSeq(content, 1, h[1] - 1) = SubSeq(prev, 1, h[1] - 1)
              /\ Suffix(content, g[2]) = Suffix(prev, h[2])
         /\ pc = "return" =>
              /\ SubSeq(content, 1, h[2] - 1) = SubSeq(prev, 1, h[2] - 1)
              /\ Len(h) >= 3 => Suffix(content, g[3]) = Suffix(prev, h[3])

\* C5 as the code has it: the first team's region runs from the start of the
\* buffer to the second separator, the second team's from the second
\* separator to the third, or to the end of the buffer when there is no third.
\* Either patch changes nothing outside its region, and nothing at all when
\* the standings of its team are missing.
C5_RegionFromBufferStart ==
    LET h == hr_matches(prev)
        g == hr_matches(content)
    IN Len(h) >= 2 =>
         /\ pc = "teamB" =>
              /\ Len(g) = Len(h)
              /\ Suffix(content, g[2]) = Suffix(prev, h[2])
              /\ StandingsMissing(NYR) => content = prev
         /\ pc = "return" =>
              /\ Len(g) = Len(h)
              /\ SubSeq(content, 1, h[2] - 1) = SubSeq(prev, 1, h[2] - 1)
              /\ Len(h) >= 3 => Suffix(content, g[3]) = Suffix(prev, h[3])
              /\ StandingsMissing(opponent) => content = prev

\* The first team's patch has changed the buffer before the first separator.
C5_Witness ==
    LET h == hr_matches(prev)
    IN /\ pc = "teamB" /\ Len(h) >= 2
       /\ SubSeq(content, 1, h[1] - 1) # SubSeq(prev, 1, h[1] - 1)
       /\ \E i \in 1..Len(content) :
            content[i] = Sym("val", "POSITION", NYR) /\ i < hr_matches(content)[1]

\* buf with the values of its first four logo attributes replaced all at once,
\* built left to right from match k on: the text between two matches as it
\* is, then the match with its new value (its own value from the fifth on).
RECURSIVE ReplacedTogether(_, _, _, _, _)
ReplacedTogether(buf, ms, k, urlA, urlB) ==
    LET from == IF k = 1 THEN 1 ELSE ms[k - 1][2] + 1
    IN IF k > Len(ms) THEN SubSeq(buf, from, Len(buf))
       ELSE SubSeq(buf, from, ms[k][1])
              \o (IF k \in {1, 3} THEN urlA
                  ELSE IF k \in {2, 4} THEN urlB
                  ELSE SubSeq(buf, ms[k][1] + 1, ms[k][2] - 1))
              \o <<buf[ms[k][2]]>>
              \o ReplacedTogether(buf, ms, k + 1, urlA, urlB)

\* The value of the k-th logo attribute of buf.
LogoValue(buf, k) ==
    LET m == LogoMatches(buf, 1)[k] IN SubSeq(buf, m[1] + 1, m[2] - 1)

\* C6: once the logos step is done, and both teams have a logo URL, the buffer
\* is the template with the values of its first four logo attributes replaced
\* all at once: the 1st and 3rd hold the first team's URL, the 2nd and 4th the
\* opponent's, every other symbol and every later match is as it was; fewer
\* than four matches give a warning and the generation goes on.  With a URL
\* missing the buffer is left as it is.
C6_LogosReplacedTogether ==
    pc \in {"search", "found", "notfound"} =>
      LET ms == LogoMatches(template, 1)
          urlA == TEAM_LOGO_URLS(NYR)
          urlB == TEAM_LOGO_URLS(opponent)
          out == LogoMatches(content, 1)
      IN /\ prev = template
         /\ steps = <<"Loaded", "LogosPatched">>
         /\ IF urlB = <<>>
            THEN content = template /\ <<"no-logo-url", "">> \in warnings
            ELSE /\ content = ReplacedTogether(template, ms, 1, urlA, urlB)
                 /\ Len(out) = Len(ms)
                 /\ \A k \in 1..Len(ms) :
                      LogoValue(content, k) =
                        IF k \in {1, 3} THEN urlA
                        ELSE IF k \in {2, 4} THEN urlB
                        ELSE LogoValue(template, k)
                 /\ (<<"fewer-than-4-logos", "">> \in warnings) <=> (Len(ms) < 4)

\* Five logo attributes and another image: four are replaced by URLs of other
\* lengths, the fifth keeps its value.
C6_Witness ==
    /\ pc = "search" /\ template = TemplatePre /\ opponent = "BUF"
    /\ Len(LogoMatches(template, 1)) = 5
    /\ Len(content) # Len(template)
    /\ LogoValue(content, 4) = TEAM_LOGO_URLS("BUF")
    /\ LogoValue(content, 5) = LogoValue(template, 5)

\* C7: when a field of the first team finds no anchor in the team's region,
\* a warning is recorded for it.
C7_AnchorWarningRecorded ==
    LET b == SectionBounds(prev, TRUE)
        region == Slice(prev, b[1], b[2])
    IN (/\ pc = "teamB"
        /\ ~StandingsMissing(NYR)
        /\ \E k \in 1..Len(Fields) :
             Fields[k].group = "standings" /\ FieldAnchor(region, Fields[k]) = 0)
       => \E w \in warnings : w[1] = "anchor-not-found" /\ w[2] = NYR

\* C8: once the first team's region is patched with a roster page at hand,
\* the region holds the team's injuries, substituted as the last step.
C8_InjuriesSubstituted ==
    (/\ pc = "teamB"
     /\ \E i \in 1..Len(fetched) : fetched[i] = <<"line-combinations", NYR, "ok">>
     /\ \E i \in 1..Len(prev) : prev[i] = Txt("old-injuries"))
    => \E i \in 1..Len(content) : content[i] = Sym("val", "injuries", NYR)

IsHeaderSym(s) ==
    \/ Kind(s) \in {"gh", "num", "mdash", "date", "timelbl", "time", "tvlbl",
                    "radiolbl", "href"}
    \/ Kind(s) = "url" /\ s[2] = "gc"
    \/ Kind(s) = "val" /\ s[2] \in {"tv", "radio"}
    \/ s \in {Txt("old-tv"), Txt("old-radio")}

HeaderOf(buf) == SelectSeq(buf, IsHeaderSym)

\* C10: when no game is found the miss changes nothing (the buffer after the
\* header step is the buffer before it), no game number is fetched, only a
\* warning is printed, the header stays what it is in the template to the end
\* of the generation, and both team steps are still taken: a generation that
\* returns gives a document, with the record of either team that has
\* standings in its region.
C10_DiscoveryMissIsSoft ==
    <<"no-game", "">> \in warnings =>
      /\ game = NoGame
      /\ HeaderOf(content) = HeaderOf(template)
      /\ \A i \in 1..Len(fetched) : fetched[i][1] # "club-schedule-season"
      /\ pc = "teamA" => content = prev
      /\ pc = "done" =>
           /\ steps = Chain
           /\ template # <<>> => outcome = "document"
           /\ LET g == hr_matches(content)
              IN Len(g) >= 2 =>
                   /\ (~StandingsMissing(NYR) /\ HasRecordField(content, 1, g[2] - 1))
                        => \E i \in 1..(g[2] - 1) : content[i] = Sym("val", "RECORD", NYR)
                   /\ (~StandingsMissing(opponent)
                         /\ HasRecordField(content, g[2], Len(content)))
                        => \E i \in g[2]..Len(content) :
                             content[i] = Sym("val", "RECORD", opponent)

\* No game in 60 days, a template with a header, and both regions patched.
C10_Witness ==
    /\ pc = "done" /\ <<"no-game", "">> \in warnings /\ template = TemplateFull
    /\ outcome = "document"
    /\ HeaderOf(content) = HeaderOf(HeaderBlock) /\ HeaderOf(content) # <<>>
    /\ \E i \in 1..Len(content) : content[i] = Sym("val", "RECORD", NYR)
    /\ \E i \in 1..Len(content) : content[i] = Sym("val", "RECORD", opponent)

\* The requests the generation has issued for the URL u of team t.
RequestsOf(u, t) == {i \in DOMAIN fetched : fetched[i][1] = u /\ fetched[i][2] = t}

\* The calls of one generation that request the URL u: get_team_stats asks
\* for the standings and the summary once per team, get_team_leaders and
\* get_goalie_stats each ask for the club statistics of their team.
CallsOf(u) == IF u \in {"standings", "summary", "club-stats"} THEN 2 ELSE 1

\* A request that gave nothing, and a later request for the same URL.
RequestedAgainAfterFailure ==
    \E i, j \in DOMAIN fetched :
        /\ i < j
        /\ fetched[i][3] = "none"
        /\ fetched[i][1] = fetched[j][1]
        /\ fetched[i][2] = fetched[j][2]

\* C11 as stated: once a fetch of a URL has failed, the same URL is never
\* requested again during the generation.
C11_NeverRequestedAgain == ~RequestedAgainAfterFailure

\* C11: no call retries its fetch: every URL is requested at most once by
\* each call that uses it, whatever the requests gave, so the standings, the
\* summary and a team's club statistics are requested at most twice in a
\* generation and every other URL at most once.
C11_OneRequestPerCall ==
    \A i \in DOMAIN fetched :
        Cardinality(RequestsOf(fetched[i][1], fetched[i][2])) <= CallsOf(fetched[i][1])

\* A finished generation in which a URL that had failed was requested again.
C11_Witness == pc = "done" /\ RequestedAgainAfterFailure

\* C12: every fetch error becomes an absence: no request ends in an
\* exception, and no generation is ended by one.
C12_NoFetchErrorPropagates ==
    /\ pc # "raised"
    /\ \A i \in DOMAIN fetched : fetched[i][3] \in {"ok", "none"}

\* The entries of all other than the k-th that are strictly better than it on
\* the metric m: higher is better, but for goals against per game.
StrictlyBetterOthers(m, all, k) ==
    {j \in DOMAIN all \ {k} :
        IF m = "ga" THEN Gt(Metric(m, all[k]), Metric(m, all[j]))
                    ELSE Gt(Metric(m, all[j]), Metric(m, all[k]))}

\* The entries of all that equal the k-th on the metric m.
EqualOn(m, all, k) ==
    {j \in DOMAIN all : ~Gt(Metric(m, all[j]), Metric(m, all[k]))
                        /\ ~Gt(Metric(m, all[k]), Metric(m, all[j]))}

\* The rank of the returned statistics on the metric m.
RankOf(stats, m) ==
    CASE m = "diff" -> stats.diff_rank
      [] m = "gf" -> stats.gf_rank
      [] m = "ga" -> stats.ga_rank
      [] m = "pp" -> stats.pp_rank
      [] m = "pk" -> stats.pk_rank

\* The payload the metric m is ranked in, and the place of the team there.
PayloadOf(m) == IF m \in {"pp", "pk"} THEN call[3] ELSE call[2]
PlaceOf(m) == IF m \in {"pp", "pk"} THEN FindStat(call[3], call[4])
                                       ELSE FindTeam(call[2], call[4])

\* C13: for a team that is an entry of the payload, each rank get_team_stats
\* returns is 1 + the number of other entries strictly better on the metric
\* (lower is better for goals against per game only); an entry equal to the
\* team on the metric gets the same rank when asked for; and the rank lies in
\* 1..N for a payload of N entries.
C13_RankCountsStrictlyBetter ==
    (ret # <<>> /\ call[1] = "get_team_stats" /\ ret[1].found) =>
        \A m \in {"diff", "gf", "ga", "pp", "pk"} :
            LET all == PayloadOf(m)
                k == PlaceOf(m)
            IN k # 0 =>
                 /\ RankOf(ret[1], m) = 1 + Cardinality(StrictlyBetterOthers(m, all, k))
                 /\ RankOf(ret[1], m) \in 1..Len(all)
                 /\ \A j \in EqualOn(m, all, k) :
                      RankOf(get_team_stats(call[2], call[3],
                                            IF m \in {"pp", "pk"} THEN all[j].teamFullName
                                                                  ELSE all[j].teamAbbrev), m)
                          = RankOf(ret[1], m)

\* A team ranked below the first place on every metric, and level with another
\* entry on goals per game.
C13_Witness ==
    /\ ret # <<>>
    /\ call[1] = "get_team_stats"
    /\ ret[1].found
    /\ \A m \in {"diff", "gf", "ga", "pp", "pk"} :
         /\ PlaceOf(m) # 0
         /\ RankOf(ret[1], m) > 1
    /\ \E m \in {"gf", "ga"} : Cardinality(EqualOn(m, PayloadOf(m), PlaceOf(m))) > 1

\* The players of the category's group, their highest value, and the first of
\* them to have it.
GroupOf(cat, skaters) == {k \in DOMAIN skaters : InGroup(cat, skaters[k])}
TopValue(cat, skaters) ==
    CHOOSE v \in {ValueOf(cat, skaters[k]) : k \in GroupOf(cat, skaters)} :
        \A k \in GroupOf(cat, skaters) : ValueOf(cat, skaters[k]) <= v
FirstAtTop(cat, skaters) ==
    Min({k \in GroupOf(cat, skaters) : ValueOf(cat, skaters[k]) = TopValue(cat, skaters)})

\* C14 as stated: for every category whose group is not empty, the leader is
\* the lowest-index player of the group having the highest value.
C14_LeaderIsFirstAtTop ==
    (ret # <<>> /\ call[1] = "get_team_leaders") =>
        \A cat \in Categories :
            GroupOf(cat, call[2]) # {} =>
                ret[1][cat].name = PlayerName(FirstAtTop(cat, call[2]))

\* C14: for every category whose group is not empty and holds a value above
\* the value the scan starts from (0 for penalty minutes and for ice time,
\* -9999 for the others), the leader is the lowest-index player of the group
\* having the highest value, and the value reported is that value; otherwise
\* no leader is reported (the name stays N/A).
C14_LeaderIsFirstAboveStart ==
    (ret # <<>> /\ call[1] = "get_team_leaders") =>
        \A cat \in Categories :
            IF GroupOf(cat, call[2]) # {} /\ TopValue(cat, call[2]) > StartOf(cat)
            THEN /\ ret[1][cat].name = PlayerName(FirstAtTop(cat, call[2]))
                 /\ ret[1][cat].value = TopValue(cat, call[2])
            ELSE ret[1][cat].name = "N/A"

\* Leaders returned for skaters of whom a later pair shares the most goals, and
\* whose defensemen have all played no time.
C14_Witness ==
    /\ ret # <<>>
    /\ call[1] = "get_team_leaders"
    /\ ret[1]["goals"].name = PlayerName(2)
    /\ \E k \in DOMAIN call[2] : k > 2 /\ call[2][k].goals = call[2][2].goals
    /\ GroupOf("toi_d", call[2]) # {}
    /\ ret[1]["toi_d"].name = "N/A"

\* The goalies whose lower-cased full name contains the lower-cased hint or is
\* contained in it, and the goalies with the most games played.
Hinted(goalies, hint) ==
    {k \in DOMAIN goalies :
        \/ Contains(Lower(FullName(goalies[k])), Lower(hint))
        \/ Contains(Lower(hint), Lower(FullName(goalies[k])))}
MostPlayed(goalies) ==
    {k \in DOMAIN goalies : \A j \in DOMAIN goalies :
                                goalies[j].gamesPlayed <= goalies[k].gamesPlayed}

\* C15: over a list of goalies that is not empty, get_goalie_stats selects the
\* first goalie whose lower-cased full name contains the lower-cased hint or
\* is contained in it when a hint is given and some goalie matches it, and
\* otherwise the first of the goalies with the most games played.
C15_GoalieSelection ==
    (ret # <<>> /\ call[1] = "get_goalie_stats" /\ call[2] # <<>>) =>
        /\ ret[1].found
        /\ ret[1].selected =
             IF call[3] # <<>> /\ Hinted(call[2], call[3]) # {}
             THEN Min(Hinted(call[2], call[3]))
             ELSE Min(MostPlayed(call[2]))

\* A goalie selected because the hint holds the whole name, ahead of an earlier
\* goalie who has played more and of a later one who matches as well.
C15_Witness ==
    /\ ret # <<>>
    /\ call[1] = "get_goalie_stats"
    /\ ret[1].found
    /\ ret[1].selected = 2
    /\ ~Contains(Lower(FullName(call[2][2])), Lower(call[3]))
    /\ call[2][1].gamesPlayed > call[2][2].gamesPlayed
    /\ Cardinality(Hinted(call[2], call[3])) > 1

\* The segments a word of the name starts at: every segment that is not a
\* single character, and the first of every run of single characters.
Heads(words) ==
    {k \in DOMAIN words : Len(words[k]) # 1 \/ k = 1 \/ Len(words[k - 1]) # 1}

\* The last segment of the run of single characters that starts at k.
RunEnd(words, k) ==
    CHOOSE e \in k..Len(words) :
        /\ \A m \in k..e : Len(words[m]) = 1
        /\ e = Len(words) \/ Len(words[e + 1]) # 1

\* The word of the name made of the segments from the head k on.
WordAt(words, k) ==
    LET w == words[k]
    IN IF Len(w) = 1
       THEN [n \in 1..(2 * (RunEnd(words, k) - k + 1)) |->
                IF n % 2 = 1 THEN UpperChar(words[k + (n - 1) \div 2][1]) ELSE "."]
       ELSE IF Len(w) > 2 /\ Lower(SubSeq(w, 1, 2)) = <<"m", "c">>
       THEN <<"M", "c">> \o Capitalize(SubSeq(w, 3, Len(w)))
       ELSE IF Len(w) > 3 /\ Lower(SubSeq(w, 1, 3)) = <<"m", "a", "c">>
       THEN <<"M", "a", "c">> \o Capitalize(SubSeq(w, 4, Len(w)))
       ELSE Capitalize(w)

\* The words of the name made of the first upto segments.
WordsUpTo(words, upto) ==
    LET heads == {k \in Heads(words) : k <= upto}
        head(n) == CHOOSE k \in heads : Cardinality({j \in heads : j < k}) = n - 1
    IN [n \in 1..Cardinality(heads) |-> WordAt(words, head(n))]

\* While the loop runs it has consumed the first i segments, i stops at a
\* head or at the end, and result holds the words of the segments consumed.
SlugConsumedInOrder ==
    locals # <<>> =>
        /\ locals[1] = Split(call[2], "-")
        /\ locals[2] \in 0..Len(locals[1])
        /\ locals[2] < Len(locals[1]) => (locals[2] + 1) \in Heads(locals[1])
        /\ locals[3] = WordsUpTo(locals[1], locals[2])

\* What is returned is the words of all the segments, joined by spaces.
SlugReturned ==
    ret # <<>> =>
        /\ locals[2] = Len(locals[1])
        /\ ret[1] = JoinWith(WordsUpTo(locals[1], Len(locals[1])), <<" ">>)
        /\ ret[1] = slug_to_name(call[2])
        /\ call[2] = ConnorMcdavid =>
             ret[1] = <<"C", "o", "n", "n", "o", "r", " ", "M", "c", "D", "a", "v", "i", "d">>
        /\ call[2] = JTMiller =>
             ret[1] = <<"J", ".", "T", ".", " ", "M", "i", "l", "l", "e", "r">>

\* Every turn of the loop moves on by at least one segment.
SlugTurnMovesOn == locals # <<>> /\ locals' # <<>> => locals'[2] > locals[2]

\* C16: slug_to_name consumes the segments left to right, each once, and
\* returns; a maximal run of k single-character segments gives one word of k
\* upper-cased characters each followed by a period, a segment starting with
\* mc (longer than 2) gives Mc + the capitalized rest, one starting with mac
\* (longer than 3) gives Mac + the capitalized rest, any other segment is
\* capitalized; connor-mcdavid gives Connor McDavid, j-t-miller J.T. Miller.
C16_SlugToName ==
    /\ [](SlugConsumedInOrder /\ SlugReturned)
    /\ [][SlugTurnMovesOn]_locals
    /\ <>(ret # <<>>)

\* A name returned for a slug in which two single characters are followed by
\* a segment starting with mc.
C16_Witness ==
    /\ ret # <<>>
    /\ call[1] = "slug_to_name"
    /\ \E k \in DOMAIN locals[1] :
         /\ k + 2 <= Len(locals[1])
         /\ Len(locals[1][k]) = 1
         /\ Len(locals[1][k + 1]) = 1
         /\ Len(locals[1][k + 2]) > 2
         /\ Lower(SubSeq(locals[1][k + 2], 1, 2)) = <<"m", "c">>

\* C17: in the name returned for a slug in which a segment equal to o (and not
\* preceded by another single character) is followed by another segment, the
\* two are merged into O'<Next>, the next segment capitalized; o-reilly gives
\* O'Reilly.
C17_LoneOMerges ==
    (ret # <<>> /\ call[1] = "slug_to_name") =>
        /\ \A k \in Heads(locals[1]) :
             (Lower(locals[1][k]) = <<"o">> /\ k < Len(locals[1])) =>
                 Contains(ret[1], <<"O", "'">> \o Capitalize(locals[1][k + 1]))
        /\ call[2] = OReilly => ret[1] = <<"O", "'", "R", "e", "i", "l", "l", "y">>

\* The player tokens of the roster region of a page: of the pieces before the
\* first marker, or of the whole page when it has no marker.
RosterTokens(html) ==
    FindAllSlugs(IF MarkerPiece(html) = 0 THEN html
                 ELSE SubSeq(html, 1, MarkerPiece(html) - 1))

\* The tokens of a sequence that no earlier token equals but for the case of
\* its letters, in the order they come.
FirstSeen(tokens) ==
    LET kept == {k \in DOMAIN tokens :
                    \A j \in 1..(k - 1) : Lower(tokens[j]) # Lower(tokens[k])}
        nth(n) == CHOOSE k \in kept : Cardinality({j \in kept : j < k}) = n - 1
    IN [n \in 1..Cardinality(kept) |-> tokens[nth(n)]]

\* The names held by a sequence of groups, counted.
RECURSIVE NamesIn(_)
NamesIn(groups) ==
    IF groups = <<>> THEN 0 ELSE Len(Head(groups)) + NamesIn(Tail(groups))

\* Every group but the last one that holds a name is full.
FilledInOrder(groups, size) ==
    \A n \in DOMAIN groups :
        /\ Len(groups[n]) <= size
        /\ (n > 1 /\ groups[n] # <<>>) => Len(groups[n - 1]) = size

\* C18: of the player tokens of the roster region, deduplicated without regard
\* to case in first-seen order, token i (from 0) is the name at place i mod 3
\* of forward line i div 3 for i < 12, at place (i-12) mod 2 of defense pair
\* (i-12) div 2 for 12 <= i < 18, and goalie i-18 for 18 <= i < 20; the groups
\* hold no other names, so a line has at most 3, a pair at most 2, there are at
\* most 2 goalies, the groups are filled in order, and a shortfall leaves the
\* later groups short or empty.
C18_LineAssignment ==
    (ret # <<>> /\ call[1] = "get_line_combinations" /\ call[2] # <<>>) =>
        LET unique == FirstSeen(RosterTokens(call[2]))
            lines == ret[1]
        IN /\ lines.found
           /\ Len(lines.forwards) = 4
           /\ Len(lines.defense) = 3
           /\ \A i \in 0..(Len(unique) - 1) :
                /\ i < 12 =>
                     /\ Len(lines.forwards[i \div 3 + 1]) > i % 3
                     /\ lines.forwards[i \div 3 + 1][(i % 3) + 1] = slug_to_name(unique[i + 1])
                /\ (12 <= i /\ i < 18) =>
                     /\ Len(lines.defense[(i - 12) \div 2 + 1]) > (i - 12) % 2
                     /\ lines.defense[(i - 12) \div 2 + 1][((i - 12) % 2) + 1]
                           = slug_to_name(unique[i + 1])
                /\ (18 <= i /\ i < 20) =>
                     /\ Len(lines.goalies) > i - 18
                     /\ lines.goalies[i - 18 + 1] = slug_to_name(unique[i + 1])
           /\ NamesIn(lines.forwards) + NamesIn(lines.defense) + Len(lines.goalies)
                 = (IF Len(unique) < 20 THEN Len(unique) ELSE 20)
           /\ FilledInOrder(lines.forwards, 3)
           /\ FilledInOrder(lines.defense, 2)
           /\ Len(lines.goalies) <= 2
           /\ lines.defense[1] # <<>> => Len(lines.forwards[4]) = 3
           /\ lines.goalies # <<>> => Len(lines.defense[3]) = 2

\* Lines returned for a roster region of more than 20 players whose first
\* player is linked a second time in capitals before the others.
C18_Witness ==
    /\ ret # <<>>
    /\ call[1] = "get_line_combinations"
    /\ call[2] # <<>>
    /\ Len(FirstSeen(RosterTokens(call[2]))) > 20
    /\ Len(RosterTokens(call[2])) > Len(FirstSeen(RosterTokens(call[2])))
    /\ RosterTokens(call[2])[2] = CapitalSlug(1)
    /\ Len(ret[1].goalies) = 2

\* C19: a team's patch made with a scrape that is absent or gave fewer than 12
\* players leaves the buffer as the patch without any scrape leaves it: the
\* lineup, the defense, the goalie name and the injuries stay as they were in
\* the template.
C19_ScrapeMissLeavesFields ==
    [][(pc \in {"teamA", "teamB"} /\ pc' = AfterTeam(pc)) =>
          \A d \in TeamData :
              (d.lines < 12 /\ content' = PatchSection(content, TeamOf(pc), pc = "teamA", d))
                  => content' = PatchSection(content, TeamOf(pc), pc = "teamA",
                                             [d EXCEPT !.lines = -1])]_vars

\* The injuries window of a page that has the marker: the pieces within 10000
\* characters from the marker on.
InjuriesWindow(html) == PiecesWithin(html, MarkerPiece(html), InjuryWindow)

\* The tokens of the injuries window not seen in the roster region, whatever
\* the case of their letters, each once and in first-seen order.
InjuredTokens(html) ==
    LET roster == {Lower(RosterTokens(html)[k]) : k \in DOMAIN RosterTokens(html)}
        NotOnRoster(token) == Lower(token) \notin roster
    IN FirstSeen(SelectSeq(FindAllSlugs(InjuriesWindow(html)), NotOnRoster))

\* The statuses in the order they are looked for, and the keywords of each.
StatusOrder == <<"OUT", "DTD", "LTIR", "IR">>
KeywordsFor(status) ==
    CASE status = "OUT" -> {">out<", ">out "}
      [] status = "DTD" -> {">dtd<", "day-to-day"}
      [] status = "LTIR" -> {">ltir<"}
      [] status = "IR" -> {">ir<"}

\* The first status of the order that has a keyword in the 500 characters
\* from the first occurrence of the token in the window, IR when none has.
StatusNear(html, token) ==
    LET nearby == KeywordsNearby(InjuriesWindow(html),
                                 FindSlug(InjuriesWindow(html), Lower(token)))
        found == {n \in DOMAIN StatusOrder : KeywordsFor(StatusOrder[n]) \cap nearby # {}}
    IN IF found = {} THEN "IR" ELSE StatusOrder[Min(found)]

\* The injury list of the page returned, every detail being the given text.
InjuryListWith(detail) ==
    (ret # <<>> /\ call[1] = "get_line_combinations" /\ call[2] # <<>>) =>
        IF MarkerPiece(call[2]) = 0 THEN ret[1].injuries = <<>>
        ELSE ret[1].injuries =
                 [n \in DOMAIN InjuredTokens(call[2]) |->
                     [name |-> slug_to_name(InjuredTokens(call[2])[n]),
                      status |-> StatusNear(call[2], InjuredTokens(call[2])[n]),
                      detail |-> detail]]

\* C20 as stated: the injury list holds the tokens of the window starting at
\* the marker that were not seen in the roster region, each once in first-seen
\* order, with the first status of OUT, DTD, LTIR, IR that has a keyword in the
\* 500 characters from the token's first occurrence (IR when none has), and
\* with the detail 'undisclosed'.
C20_InjuryListUndisclosed == InjuryListWith("undisclosed")

\* C20: the same list, the detail of every entry being the text 'Undisclosed'
\* with a capital U.
C20_InjuryList == InjuryListWith("Undisclosed")

\* An injury list of two players, the first one OUT with a day-to-day keyword
\* in front of the out keyword in its 500 characters.
C20_Witness ==
    /\ ret # <<>>
    /\ call[1] = "get_line_combinations"
    /\ call[2] # <<>>
    /\ MarkerPiece(call[2]) # 0
    /\ Len(ret[1].injuries) = 2
    /\ ret[1].injuries[1].status = "OUT"
    /\ ">dtd<" \in KeywordsNearby(InjuriesWindow(call[2]),
                                  FindSlug(InjuriesWindow(call[2]),
                                           Lower(InjuredTokens(call[2])[1])))

(***************************************************************************)
(* C21 to C27                                                              *)
(***************************************************************************)
\* The elements of text at the positions kept, in their order.
Keep(text, kept) ==
    [n \in 1..Cardinality(kept) |->
        text[CHOOSE k \in kept : Cardinality({j \in kept : j < k}) = n - 1]]

\* The text outside the tags of a piece of markup.
OutsideTags(text) ==
    LET angle(k) == text[k] \in {"<", ">"}
        inTag(k) == \E o \in 1..k : /\ text[o] = "<"
                                    /\ \A j \in (o + 1)..k : ~angle(j)
    IN Keep(text, {k \in DOMAIN text : ~angle(k) /\ ~inTag(k)})

EmDash == "EM DASH"

\* The text with each &mdash; entity read as the one character it names.
RECURSIVE Decoded(_)
Decoded(text) ==
    LET entity == <<"&", "m", "d", "a", "s", "h", ";">> IN
    IF ~Contains(text, entity) THEN text
    ELSE LET at == FindIn(text, entity)
         IN SubSeq(text, 1, at) \o <<EmDash>>
                \o Decoded(SubSeq(text, at + Len(entity) + 1, Len(text)))

\* The text without the whitespace around it.
Trimmed(text) ==
    LET inked == {k \in DOMAIN text : text[k] \notin {" ", "\n", "\t"}}
    IN IF inked = {} THEN <<>>
       ELSE SubSeq(text, Min(inked), CHOOSE k \in inked : \A j \in inked : j <= k)

\* What a reader of the page sees of the content of a field.
Shown(text) == Trimmed(Decoded(OutsideTags(text)))

\* The decimal numeral of n < 10000, digit by digit.
Numeral(n) ==
    LET len == IF n < 10 THEN 1 ELSE IF n < 100 THEN 2 ELSE IF n < 1000 THEN 3 ELSE 4
        unit(k) == IF k = len THEN 1 ELSE IF k = len - 1 THEN 10
                   ELSE IF k = len - 2 THEN 100 ELSE 1000
    IN [k \in 1..len |-> DigitChars[((n \div unit(k)) % 10) + 1]]

\* 'th' when r mod 100 is 11, 12 or 13, else by the last digit.
SuffixOf(r) ==
    CASE r % 100 \in 11..13 -> <<"t", "h">>
      [] r % 100 \notin 11..13 /\ r % 10 = 1 -> <<"s", "t">>
      [] r % 100 \notin 11..13 /\ r % 10 = 2 -> <<"n", "d">>
      [] r % 100 \notin 11..13 /\ r % 10 = 3 -> <<"r", "d">>
      [] OTHER -> <<"t", "h">>

\* 'W-L-O (P Points)' of a standings entry.
RecordText(e) ==
    Numeral(e[1]) \o <<"-">> \o Numeral(e[2]) \o <<"-">> \o Numeral(e[3]) \o <<" ", "(">>
        \o Numeral(e[4]) \o <<" ", "P", "o", "i", "n", "t", "s", ")">>

\* '<ordinal(r)> - D', with the dash given.
PositionText(r, dash, D) == Numeral(r) \o SuffixOf(r) \o <<" ">> \o dash \o <<" ">> \o D

StandingsRendered == call # <<>> /\ call[1] = "standings" /\ ret # <<>>

\* C21, as stated: the content of the record field is exactly
\* 'W-L-O (P Points)' and the content of the position field is exactly
\* '<ordinal(r)> (em dash) D'.
C21_ContentIsPlainText ==
    StandingsRendered =>
        /\ ret[1][1] = RecordText(call[2])
        /\ ret[1][2] = PositionText(call[3], <<EmDash>>, call[4])

\* C21, amended: a reader of the page sees 'W-L-O (P Points)' in the record
\* field and '<ordinal(r)> (em dash) D' in the position field, the ordinal
\* taking 'th' when r mod 100 is 11 to 13 and otherwise st, nd, rd or th by
\* its last digit; the content itself is that text indented by a newline and
\* tabs, with the points in a <b> element and the dash as the entity &mdash;.
C21_Rendering ==
    StandingsRendered =>
        /\ Shown(ret[1][1]) = RecordText(call[2])
        /\ Shown(ret[1][2]) = PositionText(call[3], <<EmDash>>, call[4])
        /\ ret[1][1] = Indent \o Numeral(call[2][1]) \o <<"-">> \o Numeral(call[2][2]) \o <<"-">>
                          \o Numeral(call[2][3]) \o <<" ", "(", "<", "b", ">">>
                          \o Numeral(call[2][4])
                          \o <<" ", "P", "o", "i", "n", "t", "s", "<", "/", "b", ">", ")">>
                          \o Outdent
        /\ ret[1][2] = Indent \o PositionText(call[3], <<"&", "m", "d", "a", "s", "h", ";">>,
                                              call[4]) \o Outdent

\* The entry 10-3-2 with 22 points, second in the Metropolitan, is rendered.
C21_Witness ==
    /\ StandingsRendered
    /\ call = <<"standings", <<10, 3, 2, 22>>, 2, Metropolitan>>
    /\ Shown(ret[1][1]) = <<"1", "0", "-", "3", "-", "2", " ", "(", "2", "2", " ",
                            "P", "o", "i", "n", "t", "s", ")">>
    /\ Shown(ret[1][2]) = <<"2", "n", "d", " ", EmDash, " ">> \o Metropolitan

\* The number a text of digits reads as.
DigitValue(c) == CHOOSE d \in 0..9 : DigitChars[d + 1] = c

RECURSIVE NumberRead(_)
NumberRead(text) ==
    IF text = <<>> THEN 0
    ELSE 10 * NumberRead(SubSeq(text, 1, Len(text) - 1)) + DigitValue(text[Len(text)])

AllDigits(text) == \A k \in DOMAIN text : \E d \in 0..9 : DigitChars[d + 1] = text[k]

\* C22: a save percentage and a points percentage of k thousandths, for
\* every k from 0 to 1000, are rendered as a period followed by exactly
\* three digits that read as k; a goals against average is rendered with
\* exactly two decimals.
C22_PercentagesInThousandths ==
    (call # <<>> /\ ret # <<>>) =>
        /\ call[1] \in {"pct_str", "sv_pct"} =>
              /\ Len(ret[1]) = 4
              /\ ret[1][1] = "."
              /\ AllDigits(SubSeq(ret[1], 2, 4))
              /\ NumberRead(SubSeq(ret[1], 2, 4)) = call[2]
        /\ call[1] = "gaa" =>
              /\ Len(ret[1]) >= 4
              /\ ret[1][Len(ret[1]) - 2] = "."
              /\ AllDigits(SubSeq(ret[1], 1, Len(ret[1]) - 3))
              /\ AllDigits(SubSeq(ret[1], Len(ret[1]) - 1, Len(ret[1])))

\* Two texts with the same letters, whatever their case.
SameLetters(a, b) == Len(a) = Len(b) /\ \A k \in DOMAIN a : LowerChar(a[k]) = LowerChar(b[k])

\* The text, without the whitespace around it, is an alias or the code of t.
NamesTeam(text, t) ==
    \/ \E m \in TEAM_MAPPINGS : m[2] = t /\ SameLetters(Trimmed(text), m[1])
    \/ SameLetters(Trimmed(text), CodeText(t))

Fetched == fetched # <<>> \/ sched_fetches > 0

\* C23: a request fetches only after its opponent text has been resolved to
\* the code of a team, whatever the case of its letters and the whitespace
\* around it, every alias of a team giving the code of that team; a text
\* that names no team, or names the Rangers, is answered with an error
\* before any fetch and without a document.
C23_FetchOnlyAfterResolution ==
    /\ Fetched => opponent \in Teams \ {NYR} /\ NamesTeam(call[2], opponent)
    /\ pc # "request" =>
          IF \E t \in Teams \ {NYR} : NamesTeam(call[2], t)
          THEN opponent \in Teams /\ NamesTeam(call[2], opponent) /\ ret = <<>>
          ELSE /\ pc = "done"
               /\ outcome = "error"
               /\ ret = <<400>>
               /\ ~Fetched
               /\ content = <<>>
               /\ steps = <<>>

\* A request for ' Sabres ' has fetched the data of BUF.
C23_Witness ==
    /\ call[2] = <<" ", "S", "a", "b", "r", "e", "s", " ">>
    /\ opponent = "BUF"
    /\ \E i \in DOMAIN fetched : fetched[i][2] = "BUF"

\* What one call of update_template holds in its buffer when it runs alone
\* and has come to the position at.
AloneAt(r, at) ==
    LET logos == update_team_logos(r.template, NYR, r.opponent)
        header == IF r.game = NoGame THEN logos
                  ELSE update_game_header(logos, r.game, r.number)
        teamA == IF ~r.teamA.standings THEN header
                 ELSE PatchSection(header, NYR, TRUE, r.teamA.d)
        teamB == IF ~r.teamB.standings THEN teamA
                 ELSE PatchSection(teamA, r.opponent, FALSE, r.teamB.d)
    IN CASE at = "logos" -> r.template
         [] at = "header" -> logos
         [] at = "teamA" -> header
         [] at = "teamB" -> teamA
         [] OTHER -> teamB

Concurrent == call # <<>> /\ call[1] = "update_template"

LabelAt(buf, i) ==
    LET opened == {j \in 1..(i - 1) : Kind(buf[j]) = "p"}
    IN IF opened = {} THEN ""
       ELSE buf[CHOOSE j \in opened : \A k \in opened : k <= j][2]

FieldNames == {Fields[k].f : k \in DOMAIN Fields}

\* C25: a substitution replaces only the content of the placeholder that
\* carries its own label, also when one label begins with another (RECORD,
\* RECORD HOME, RECORD AWAY and the goalie's REC; SO and S/O; P% and PP%):
\* the value of a field is found only in the placeholder of its label, so
\* the goalie's record never stands in a record, home or away placeholder.
C25_OwnPlaceholderOnly ==
    \A i \in DOMAIN content :
        (Kind(content[i]) = "val" /\ content[i][2] \in FieldNames)
            => LabelAt(content, i) = content[i][2]

\* C26: patching is idempotent: update_team_section, and update_team_logos,
\* applied a second time with the same data to the buffer the first
\* application returned, return that buffer as it is; this holds for the
\* defense pairs too, whose second pattern is tried whenever the first left
\* the section as it was.
C26_PatchingIdempotent ==
    (call # <<>> /\ call[1] \in {"update_team_section", "update_team_logos"} /\ ret # <<>>)
        => ret[1] = locals[1]

FewSeparators == Len(hr_matches(template)) < 2

\* The requests of the statistics of the club t in the log.
ClubRequests(t) == {i \in DOMAIN fetched : fetched[i][1] = "club-stats" /\ fetched[i][2] = t}

\* update_team_section has patched the buffer for both teams and
\* update_template is about to return, or has returned.
BothPatched ==
    /\ pc \in {"return", "done"}
    /\ ClubRequests(NYR) # {}
    /\ ClubRequests(opponent) # {}

\* The last request of the club's statistics, the one of get_goalie_stats,
\* brought data.
GoalieFound(t) ==
    LET S == ClubRequests(t)
    IN fetched[CHOOSE i \in S : \A j \in S : j <= i][3] = "ok"

GoalieFields == {Fields[k].f : k \in {j \in DOMAIN Fields : Fields[j].group = "goalie"}}

FieldValueAt(i) == Kind(content[i]) = "val" /\ content[i][2] \in FieldNames

\* The placeholder at j is the first of its label in the buffer.
FirstOfLabel(j) ==
    /\ Kind(content[j]) = "p"
    /\ \A k \in 1..(j - 1) : ~(Kind(content[k]) = "p" /\ content[k][2] = content[j][2])

SeparatorFreeWarnings ==
    warnings \subseteq {<<"fewer-than-4-logos", "">>, <<"no-logo-url", "">>, <<"no-game", "">>}

====
